---- MODULE Spec2Model ----
(***************************************************************************)
(* Guitar Pro 6 writer: the byte buffer (BinaryWriter), the document model *)
(* (Song, Track, Measure, Beat, Note) and the document writer (GP6Writer). *)
(*                                                                         *)
(* Conventions.                                                            *)
(*  - A JavaScript string is the sequence of its Unicode code points; its  *)
(*    UTF-8 encoding is computed by utf8.                                  *)
(*  - A JavaScript object is a record; an optional field that is not set   *)
(*    is a field the record does not have (f \notin DOMAIN r).             *)
(*  - A Node Buffer is [length, data]: data holds the bytes up to the      *)
(*    highest index stored so far, every byte above it is 0 (Buffer.alloc  *)
(*    zero-fills).  Offsets are 0-based as in the source.                  *)
(*  - A BinaryWriter is [buffer, position, threw]; threw is TRUE while an  *)
(*    exception raised by a write is propagating: the statements after the *)
(*    throwing one are skipped.                                            *)
(***************************************************************************)
EXTENDS Integers, Sequences, FiniteSets, TLC

VARIABLES
    song,      \* document model: the Song being assembled by the caller
    gp6,       \* the GP6Writer instance: its private BinaryWriter
    pc,        \* position of the running GP6Writer.write call ("idle": none)
    arg,       \* the song passed to the running write call
    ret,       \* the Buffer returned by the last completed write call
    calls,     \* number of write calls started on the instance
    writer,    \* a BinaryWriter driven directly by a caller
    ref,       \* a BinaryWriter of default size given the same operations
    last,      \* the caller's last operation: its name and argument
    err,       \* whether the caller's last operation threw
    ops,       \* number of operations the caller has issued
    heap,      \* the model's objects and arrays, by reference
    done,      \* the last call on these objects: function, arguments, result
    tasks,     \* the tool calls made on the server, in the order they began
    disk       \* the file system: the files and their bytes, the directories

vars ==
    <<song, gp6, pc, arg, ret, calls, writer, ref, last, err, ops, heap, done,
      tasks, disk>>

---------------------------------------------------------------------------
(* Bounds of the model *)

\* largest number of tracks of a song
MaxTracks == 2
\* number of write calls made on one GP6Writer instance
MaxWrites == 2
\* largest initial capacity given to the BinaryWriter constructor
MaxCap == 3
\* number of write operations a caller issues on one BinaryWriter
MaxOps == 2
\* number of calls a caller makes on the model's objects
MaxCalls == 2

---------------------------------------------------------------------------
(* Helpers *)

Max(a, b) == IF a >= b THEN a ELSE b
Min(a, b) == IF a <= b THEN a ELSE b

\* n copies of x
Rep(x, n) == [k \in 1..n |-> x]

---------------------------------------------------------------------------
(* Node Buffer *)

\* UTF-8 encoding of one code point (Buffer.from(value, 'utf8'))
utf8Char(cp) ==
    IF cp < 128 THEN <<cp>>
    ELSE IF cp < 2048 THEN <<192 + (cp \div 64), 128 + (cp % 64)>>
    ELSE IF cp < 65536 THEN
        <<224 + (cp \div 4096), 128 + ((cp \div 64) % 64), 128 + (cp % 64)>>
    ELSE <<240 + (cp \div 262144), 128 + ((cp \div 4096) % 64),
           128 + ((cp \div 64) % 64), 128 + (cp % 64)>>

\* Buffer.from(value, 'utf8'): the encodings of the code points in order
RECURSIVE utf8(_)
utf8(value) ==
    IF Len(value) = 0 THEN <<>>
    ELSE IF Len(value) = 1 THEN utf8Char(value[1])
    ELSE LET mid == Len(value) \div 2
         IN  utf8(SubSeq(value, 1, mid))
             \o utf8(SubSeq(value, mid + 1, Len(value)))

\* Buffer.alloc(size): size zero bytes
alloc(size) == [length |-> size, data |-> <<>>]

\* buffer[i]
byteAt(buffer, i) == IF i < Len(buffer.data) THEN buffer.data[i + 1] ELSE 0

\* buffer[i] = v; an index outside the buffer is ignored
setByte(buffer, i, v) ==
    IF i < 0 \/ i >= buffer.length THEN buffer
    ELSE IF i < Len(buffer.data) THEN [buffer EXCEPT !.data[i + 1] = v]
    ELSE IF i = Len(buffer.data) THEN [buffer EXCEPT !.data = Append(@, v)]
    ELSE [buffer EXCEPT !.data =
            [k \in 1..(i + 1) |->
                IF k = i + 1 THEN v ELSE IF k <= Len(@) THEN @[k] ELSE 0]]

\* bytes.copy(target, targetStart, sourceStart, sourceEnd) for a byte
\* sequence: copies what fits in the target
copyInto(bytes, target, targetStart, sourceStart, sourceEnd) ==
    LET n == Min(Min(sourceEnd, Len(bytes)) - sourceStart,
                 target.length - targetStart)
        top == IF n > 0 THEN Max(Len(target.data), targetStart + n)
               ELSE Len(target.data)
    IN  IF n <= 0 THEN target
        ELSE IF targetStart = Len(target.data)
        THEN [target EXCEPT !.data =
                 @ \o SubSeq(bytes, sourceStart + 1, sourceStart + n)]
        ELSE [target EXCEPT !.data =
            [k \in 1..top |->
                IF k > targetStart /\ k <= targetStart + n
                THEN bytes[sourceStart + k - targetStart]
                ELSE IF k <= Len(@) THEN @[k] ELSE 0]]

\* source.copy(target) for two Buffers: the whole source, or what fits
copyBuffer(source, target) ==
    LET n   == Min(source.length, target.length)
        top == Max(Len(target.data), Min(Len(source.data), n))
    IN  [target EXCEPT !.data =
            [k \in 1..top |->
                IF k <= n THEN byteAt(source, k - 1) ELSE @[k]]]

\* buffer.subarray(start, end) as a byte sequence
subarray(buffer, start, end) ==
    LET e == Min(end, buffer.length)
    IN  [k \in 1..Max(e - start, 0) |-> byteAt(buffer, start + k - 1)]

\* the four bytes writeInt32LE stores: two's complement, little-endian
int32LE(value) ==
    <<value % 256, (value \div 256) % 256, (value \div 65536) % 256,
      (value \div 16777216) % 256>>

---------------------------------------------------------------------------
(* BinaryWriter *)

\* constructor(size = 1024 * 1024)
DefaultSize == 1024 * 1024

newBinaryWriter(size) ==
    [buffer |-> alloc(size), position |-> 0, threw |-> FALSE]

\* ensureCapacity without the copy of the old buffer
ensureCapacityNoCopy(w, additional) ==
    LET required == w.position + additional
    IN  IF required > w.buffer.length
        THEN [w EXCEPT !.buffer = alloc(Max(required, w.buffer.length * 2))]
        ELSE w

ensureCapacity(w, additional) ==
    LET required == w.position + additional
    IN  IF required > w.buffer.length
        THEN LET newSize   == Max(required, w.buffer.length * 2)
                 newBuffer == alloc(newSize)
             IN  [w EXCEPT !.buffer = copyBuffer(w.buffer, newBuffer)]
        ELSE w

\* writeByte storing value modulo 256 instead of rejecting it
writeByteWrap(w, value) ==
    IF w.threw THEN w
    ELSE LET w1 == ensureCapacity(w, 1)
         IN  [w1 EXCEPT !.buffer = setByte(@, w1.position, value % 256),
                        !.position = @ + 1]

\* the number NaN (what parseInt gives for a string that holds no number):
\* a value that no other number of the model has
NaN == -99999

\* buffer.writeUInt8 throws a RangeError unless 0 <= value <= 255; NaN is
\* neither below 0 nor above 255 and is stored as 0
writeByte(w, value) ==
    IF w.threw THEN w
    ELSE LET w1 == ensureCapacity(w, 1)
         IN  IF value # NaN /\ (value < 0 \/ value > 255)
             THEN [w1 EXCEPT !.threw = TRUE]
             ELSE [w1 EXCEPT !.buffer = setByte(@, w1.position,
                                                IF value = NaN THEN 0
                                                ELSE value),
                             !.position = @ + 1]

\* buffer.writeInt8 throws a RangeError unless -128 <= value <= 127
writeSignedByte(w, value) ==
    IF w.threw THEN w
    ELSE LET w1 == ensureCapacity(w, 1)
         IN  IF value < -128 \/ value > 127
             THEN [w1 EXCEPT !.threw = TRUE]
             ELSE [w1 EXCEPT !.buffer = setByte(@, w1.position, value % 256),
                             !.position = @ + 1]

\* buffer.writeInt32LE throws a RangeError outside the 32-bit signed range
writeInt(w, value) ==
    IF w.threw THEN w
    ELSE LET w1 == ensureCapacity(w, 4)
         IN  IF value < -2147483647 - 1 \/ value > 2147483647
             THEN [w1 EXCEPT !.threw = TRUE]
             ELSE [w1 EXCEPT !.buffer = copyInto(int32LE(value), @,
                                                 w1.position, 0, 4),
                             !.position = @ + 4]

writeBoolean(w, value) == writeByte(w, IF value THEN 1 ELSE 0)

\* writeString prefixing the number of characters of value
writeStringChars(w, value) ==
    LET bytes == utf8(value)
        w1    == writeInt(w, Len(value))
    IN  IF w1.threw THEN w1
        ELSE LET w2 == ensureCapacity(w1, Len(bytes))
             IN  [w2 EXCEPT !.buffer = copyInto(bytes, @, w2.position, 0,
                                                Len(bytes)),
                            !.position = @ + Len(bytes)]

writeString(w, value) ==
    LET bytes == utf8(value)
        w1    == writeInt(w, Len(bytes))
    IN  IF w1.threw THEN w1
        ELSE LET w2 == ensureCapacity(w1, Len(bytes))
             IN  [w2 EXCEPT !.buffer = copyInto(bytes, @, w2.position, 0,
                                                Len(bytes)),
                            !.position = @ + Len(bytes)]

writeByteString(w, value) ==
    LET bytes == utf8(value)
        w1    == writeByte(w, Len(bytes))
    IN  IF w1.threw THEN w1
        ELSE LET w2 == ensureCapacity(w1, Len(bytes))
             IN  [w2 EXCEPT !.buffer = copyInto(bytes, @, w2.position, 0,
                                                Len(bytes)),
                            !.position = @ + Len(bytes)]

\* the padding loop of writeFixedString and skip: buffer[position + i] = 0
\* for from <= i < to
RECURSIVE zeroFill(_, _, _, _)
zeroFill(buffer, position, from, to) ==
    IF from >= to THEN buffer
    ELSE zeroFill(setByte(buffer, position + from, 0), position, from + 1, to)

\* writeFixedString writing the whole encoding when it is longer than length
writeFixedStringWhole(w, value, length) ==
    IF w.threw THEN w
    ELSE LET bytes   == utf8(value)
             total   == Max(Len(bytes), length)
             w1      == ensureCapacity(w, total)
             b1      == copyInto(bytes, w1.buffer, w1.position, 0, Len(bytes))
         IN  [w1 EXCEPT !.buffer = zeroFill(b1, w1.position, Len(bytes), total),
                        !.position = @ + total]

writeFixedString(w, value, length) ==
    IF w.threw THEN w
    ELSE LET bytes   == utf8(value)
             written == Min(Len(bytes), length)
             w1      == ensureCapacity(w, length)
             b1      == copyInto(bytes, w1.buffer, w1.position, 0, written)
         IN  [w1 EXCEPT !.buffer = zeroFill(b1, w1.position, written, length),
                        !.position = @ + length]

writeBytes(w, bytes) ==
    IF w.threw THEN w
    ELSE LET w1 == ensureCapacity(w, Len(bytes))
         IN  [w1 EXCEPT !.buffer = copyInto(bytes, @, w1.position, 0,
                                            Len(bytes)),
                        !.position = @ + Len(bytes)]

\* writeColor without the padding byte after r, g and b
writeColorRGB(w, r, g, b) ==
    LET w1 == writeByte(w, r)
    IN  IF w1.threw THEN w1 ELSE
    LET w2 == writeByte(w1, g)
    IN  IF w2.threw THEN w2 ELSE writeByte(w2, b)

writeColor(w, r, g, b) ==
    LET w1 == writeByte(w, r)
    IN  IF w1.threw THEN w1 ELSE
    LET w2 == writeByte(w1, g)
    IN  IF w2.threw THEN w2 ELSE
    LET w3 == writeByte(w2, b)
    IN  IF w3.threw THEN w3 ELSE writeByte(w3, 0)

skip(w, count) ==
    IF w.threw THEN w
    ELSE LET w1 == ensureCapacity(w, count)
         IN  [w1 EXCEPT !.buffer = zeroFill(@, w1.position, 0, count),
                        !.position = @ + count]

getPosition(w) == w.position

\* toBuffer returning the whole backing buffer
toBufferWhole(w) == subarray(w.buffer, 0, w.buffer.length)

toBuffer(w) == subarray(w.buffer, 0, w.position)

---------------------------------------------------------------------------
(* Document model *)

\* { ...r, f: v }
with(r, f, v) == [x \in DOMAIN r \cup {f} |-> IF x = f THEN v ELSE r[x]]

\* array.slice(0, end)
slice0(array, end) ==
    LET e == IF end < 0 THEN Max(Len(array) + end, 0) ELSE Min(end, Len(array))
    IN  SubSeq(array, 1, e)

\* enum Duration
WHOLE == 1
HALF == 2
QUARTER == 4
EIGHTH == 8
SIXTEENTH == 16
THIRTY_SECOND == 32

createNote(fret, string, velocity) ==
    [fret |-> fret, string |-> string, velocity |-> velocity,
     ghost |-> FALSE, accentuated |-> FALSE, heavyAccentuated |-> FALSE,
     palmMute |-> FALSE, vibrato |-> FALSE, harmonic |-> FALSE,
     trill |-> FALSE, slide |-> FALSE]

createBeat(duration) ==
    [notes |-> <<>>, duration |-> duration, dotted |-> FALSE, tuplet |-> 1,
     rest |-> FALSE]

addNoteToBeat(beat, note) ==
    with(with(beat, "notes", Append(beat.notes, note)), "rest", FALSE)

createMeasure == [beats |-> <<>>]

addBeatToMeasure(measure, beat) ==
    with(measure, "beats", Append(measure.beats, beat))

setTimeSignature(measure, numerator, denominator) ==
    with(measure, "timeSignature",
         [numerator |-> numerator, denominator |-> denominator])

\* Measure.ts setTempo
setMeasureTempo(measure, tempo) == with(measure, "tempo", tempo)

standardTuning == <<64, 59, 55, 50, 45, 40>>

createTrack(name, stringCount) ==
    [name |-> name, measures |-> <<>>,
     tuning |-> [strings |-> slice0(standardTuning, stringCount)],
     midiChannel |-> [channel |-> 0, effectChannel |-> 1, instrument |-> 25],
     color |-> [r |-> 255, g |-> 0, b |-> 0],
     fretCount |-> 24, offset |-> 0, volume |-> 13, balance |-> 0,
     chorus |-> 0, reverb |-> 0, phaser |-> 0, tremolo |-> 0]

addMeasureToTrack(track, measure) ==
    with(track, "measures", Append(track.measures, measure))

setTuning(track, tuning) == with(track, "tuning", [strings |-> tuning])

\* artist || '' : an omitted artist is the empty string
createSong(title, artist) ==
    [info |-> [title |-> title, artist |-> artist, subtitle |-> <<>>,
               album |-> <<>>, author |-> <<>>, copyright |-> <<>>,
               writer |-> <<>>, instructions |-> <<>>, comments |-> <<>>],
     tracks |-> <<>>, tempo |-> 120, key |-> 0, measureCount |-> 0]

\* addTrackToSong taking the new track's length for the measure count
addTrackToSongLast(s, track) ==
    with(with(s, "tracks", Append(s.tracks, track)),
         "measureCount", Len(track.measures))

addTrackToSong(s, track) ==
    with(with(s, "tracks", Append(s.tracks, track)),
         "measureCount", Max(s.measureCount, Len(track.measures)))

\* Song.ts setTempo
setSongTempo(s, tempo) == with(s, "tempo", tempo)

---------------------------------------------------------------------------
(* The document model's objects by reference: every object or array       *)
(* literal the functions evaluate is a new cell of the heap, and a spread  *)
(* {...x} copies the fields of x, references included                      *)

\* a cell holding an object of the given interface
Obj(kind, fields) == [kind |-> kind, obj |-> fields]

\* a cell holding an array of elements of the given type
Arr(kind, elements) == [kind |-> kind, obj |-> elements]

\* evaluation of an object or array literal: a new cell; its reference
allocate(h, cell) == [heap |-> Append(h, cell), ref |-> Len(h) + 1]

\* addNoteToBeat without rest: false
addNoteToBeatKeepRest(h, beat, note) ==
    LET notes == allocate(h, Arr("Note[]",
                                 Append(h[h[beat].obj.notes].obj, note)))
    IN  allocate(notes.heap,
                 Obj("Beat", with(h[beat].obj, "notes", notes.ref)))

\* addNoteToBeat appending to the beat's own array and clearing its flag
addNoteToBeatInPlace(h, beat, note) ==
    [heap |-> [h EXCEPT ![h[beat].obj.notes].obj = Append(@, note),
                        ![beat].obj.rest = FALSE],
     ref |-> beat]

\* { ...beat, notes: [...beat.notes, note], rest: false }
addNoteToBeatAt(h, beat, note) ==
    LET notes == allocate(h, Arr("Note[]",
                                 Append(h[h[beat].obj.notes].obj, note)))
    IN  allocate(notes.heap,
                 Obj("Beat", with(with(h[beat].obj, "notes", notes.ref),
                                  "rest", FALSE)))

\* { ...measure, beats: [...measure.beats, beat] }
addBeatToMeasureAt(h, measure, beat) ==
    LET beats == allocate(h, Arr("Beat[]",
                                 Append(h[h[measure].obj.beats].obj, beat)))
    IN  allocate(beats.heap,
                 Obj("Measure", with(h[measure].obj, "beats", beats.ref)))

\* { ...measure, timeSignature: { numerator, denominator } }
setTimeSignatureAt(h, measure, numerator, denominator) ==
    LET ts == allocate(h, Obj("TimeSignature",
                              [numerator |-> numerator,
                               denominator |-> denominator]))
    IN  allocate(ts.heap,
                 Obj("Measure", with(h[measure].obj, "timeSignature", ts.ref)))

\* { ...measure, tempo }
setMeasureTempoAt(h, measure, tempo) ==
    allocate(h, Obj("Measure", with(h[measure].obj, "tempo", tempo)))

\* { ...track, measures: [...track.measures, measure] }
addMeasureToTrackAt(h, track, measure) ==
    LET measures == allocate(h, Arr("Measure[]",
                                    Append(h[h[track].obj.measures].obj,
                                           measure)))
    IN  allocate(measures.heap,
                 Obj("Track", with(h[track].obj, "measures", measures.ref)))

\* { ...track, tuning: { strings: tuning } }
setTuningAt(h, track, tuning) ==
    LET t == allocate(h, Obj("Tuning", [strings |-> tuning]))
    IN  allocate(t.heap, Obj("Track", with(h[track].obj, "tuning", t.ref)))

\* { ...song, tracks: [...song.tracks, track],
\*   measureCount: Math.max(song.measureCount, track.measures.length) }
addTrackToSongAt(h, s, track) ==
    LET tracks == allocate(h, Arr("Track[]",
                                  Append(h[h[s].obj.tracks].obj, track)))
    IN  allocate(tracks.heap,
                 Obj("Song",
                     with(with(h[s].obj, "tracks", tracks.ref),
                          "measureCount",
                          Max(h[s].obj.measureCount,
                              Len(h[h[track].obj.measures].obj)))))

\* { ...song, tempo }
setSongTempoAt(h, s, tempo) ==
    allocate(h, Obj("Song", with(h[s].obj, "tempo", tempo)))

\* createTrack: the literal it returns, with its measures array, its strings
\* array (standardTuning.slice(0, stringCount)) and its tuning object
createTrackAt(h, name, stringCount) ==
    LET track    == createTrack(name, stringCount)
        measures == allocate(h, Arr("Measure[]", track.measures))
        strings  == allocate(measures.heap,
                             Arr("number[]", track.tuning.strings))
        tuning   == allocate(strings.heap,
                             Obj("Tuning", [strings |-> strings.ref]))
    IN  allocate(tuning.heap,
                 Obj("Track", with(with(track, "measures", measures.ref),
                                   "tuning", tuning.ref)))

\* the references of the cells of a kind
Refs(kind) == { a \in DOMAIN heap : heap[a].kind = kind }

\* a file system without files
EmptyDisk == [files |-> <<>>, directories |-> {}]

\* the server has received no tool call
InitServer ==
    /\ tasks = <<>>
    /\ disk = EmptyDisk

\* objects a caller has built: a note, a beat holding it with a text, a
\* rest beat, two measures, a tuning, a track and a song
InitHeap ==
    /\ heap = <<
        Obj("Note", [fret |-> 3, string |-> 1, velocity |-> 95]),
        Arr("Note[]", <<1>>),
        Obj("Beat", [notes |-> 2, duration |-> QUARTER, dotted |-> FALSE,
                     tuplet |-> 1, rest |-> FALSE, text |-> <<84>>]),
        Arr("Note[]", <<>>),
        Obj("Beat", [notes |-> 4, duration |-> EIGHTH, dotted |-> TRUE,
                     tuplet |-> 3, rest |-> TRUE]),
        Arr("Beat[]", <<3>>),
        Obj("Measure", [beats |-> 6, tempo |-> 90]),
        Arr("Beat[]", <<>>),
        Obj("Measure", [beats |-> 8]),
        Arr("number[]", <<64, 59, 55, 50>>),
        Obj("Tuning", [strings |-> 10]),
        Arr("Measure[]", <<7, 9>>),
        Obj("Track", with(with(createTrack(<<84>>, 4), "measures", 12),
                          "tuning", 11)),
        Arr("Track[]", <<>>),
        Obj("Song", [info |-> [title |-> <<84>>], tracks |-> 14,
                     tempo |-> 120, key |-> 0, measureCount |-> 0]) >>
    /\ done = [n |-> 0, fn |-> "", args |-> <<>>, result |-> 0]

\* a caller calls fn(args); r is the heap after the call and the reference
\* returned
Invoke(fn, args, r) ==
    /\ done.n < MaxCalls
    /\ heap' = r.heap
    /\ done' = [n |-> done.n + 1, fn |-> fn, args |-> args, result |-> r.ref]
    /\ UNCHANGED <<tasks, disk, song, gp6, pc, arg, ret, calls, writer, ref,
                   last, err, ops>>

CallAddNoteToBeat ==
    \E beat \in Refs("Beat"), note \in Refs("Note") :
        Invoke("addNoteToBeat", <<beat, note>>,
               addNoteToBeatAt(heap, beat, note))

CallAddBeatToMeasure ==
    \E measure \in Refs("Measure"), beat \in Refs("Beat") :
        Invoke("addBeatToMeasure", <<measure, beat>>,
               addBeatToMeasureAt(heap, measure, beat))

CallSetTimeSignature ==
    \E measure \in Refs("Measure"), n \in {3, 4} :
        Invoke("setTimeSignature", <<measure, n, 4>>,
               setTimeSignatureAt(heap, measure, n, 4))

CallSetMeasureTempo ==
    \E measure \in Refs("Measure"), tempo \in {0, 140} :
        Invoke("Measure.setTempo", <<measure, tempo>>,
               setMeasureTempoAt(heap, measure, tempo))

CallAddMeasureToTrack ==
    \E track \in Refs("Track"), measure \in Refs("Measure") :
        Invoke("addMeasureToTrack", <<track, measure>>,
               addMeasureToTrackAt(heap, track, measure))

CallSetTuning ==
    \E track \in Refs("Track"), tuning \in Refs("number[]") :
        Invoke("setTuning", <<track, tuning>>,
               setTuningAt(heap, track, tuning))

CallAddTrackToSong ==
    \E s \in Refs("Song"), track \in Refs("Track") :
        Invoke("addTrackToSong", <<s, track>>,
               addTrackToSongAt(heap, s, track))

CallSetSongTempo ==
    \E s \in Refs("Song"), tempo \in {60, 240} :
        Invoke("Song.setTempo", <<s, tempo>>, setSongTempoAt(heap, s, tempo))

\* string counts a caller requests: none, a bass, a guitar, a 7-string guitar
StringCountInputs == {0, 4, 6, 7}

CallCreateTrack ==
    \E stringCount \in StringCountInputs :
        Invoke("createTrack", <<<<84>>, stringCount>>,
               createTrackAt(heap, <<84>>, stringCount))

\* createTrack(name): stringCount takes its default, 6
CallCreateTrackDefault ==
    Invoke("createTrack", <<<<84>>>>, createTrackAt(heap, <<84>>, 6))

\* the caller sets a beat's flag directly: beat.rest = true
AssignRest ==
    \E beat \in Refs("Beat") :
        Invoke("beat.rest = true", <<beat>>,
               [heap |-> [heap EXCEPT ![beat].obj.rest = TRUE],
                ref |-> beat])

InitObjects ==
    /\ InitHeap
    /\ InitServer
    /\ song = createSong(<<>>, <<>>)
    /\ gp6 = [writer |-> newBinaryWriter(DefaultSize)]
    /\ pc = "idle"
    /\ arg = song
    /\ ret = <<>>
    /\ calls = 0
    /\ writer = newBinaryWriter(DefaultSize)
    /\ ref = newBinaryWriter(DefaultSize)
    /\ last = [op |-> "constructor", value |-> <<>>]
    /\ err = FALSE
    /\ ops = 0

NextObjects ==
    \/ CallAddNoteToBeat
    \/ CallAddBeatToMeasure
    \/ CallSetTimeSignature
    \/ CallSetMeasureTempo
    \/ CallAddMeasureToTrack
    \/ CallSetTuning
    \/ CallAddTrackToSong
    \/ CallSetSongTempo
    \/ CallCreateTrack
    \/ CallCreateTrackDefault
    \/ AssignRest

SpecObjects == InitObjects /\ [][NextObjects]_vars

---------------------------------------------------------------------------

(* GP6Writer *)

\* JavaScript truthiness of r.f for each type an optional field has
truthyObject(r, f) == f \in DOMAIN r
truthyString(r, f) == f \in DOMAIN r /\ r[f] # <<>>
truthyNumber(r, f) == f \in DOMAIN r /\ r[f] # 0
truthyBoolean(r, f) == f \in DOMAIN r /\ r[f]

\* r.f || ''
orEmpty(r, f) == IF truthyString(r, f) THEN r[f] ELSE <<>>

\* 'FICHIER GUITAR PRO v6'
Magic ==
    <<70, 73, 67, 72, 73, 69, 82, 32, 71, 85, 73, 84, 65, 82, 32, 80, 82, 79,
      32, 118, 54>>

\* constructor: this.writer = new BinaryWriter()
newGP6Writer == [writer |-> newBinaryWriter(DefaultSize)]

\* one call of a BinaryWriter method, <<method, arguments>>
call(w, c) ==
    CASE c[1] = "writeByte" -> writeByte(w, c[2])
      [] c[1] = "writeSignedByte" -> writeSignedByte(w, c[2])
      [] c[1] = "writeBoolean" -> writeBoolean(w, c[2])
      [] c[1] = "writeInt" -> writeInt(w, c[2])
      [] c[1] = "writeString" -> writeString(w, c[2])
      [] c[1] = "writeFixedString" -> writeFixedString(w, c[2], c[3])
      [] c[1] = "writeColor" -> writeColor(w, c[2], c[3], c[4])

\* the statements this.writer.m(...) of a method body, executed in order up
\* to the first that throws
RECURSIVE perform(_, _)
perform(w, cs) ==
    IF cs = <<>> THEN w
    ELSE IF w.threw THEN w
    ELSE perform(call(w, Head(cs)), Tail(cs))

\* if (c) { statements }
when(c, cs) == IF c THEN cs ELSE <<>>

\* for (const v of values) this.writer.m(v)
each(m, values) == [i \in 1..Len(values) |-> <<m, values[i]>>]

\* writeHeader padding the identifier to 30 bytes
writeHeaderShort(w) ==
    perform(w, << <<"writeFixedString", Magic, 30>>,
                  <<"writeInt", 6>> >>)

writeHeader(w) ==
    perform(w, << <<"writeFixedString", Magic, 31>>,
                  <<"writeInt", 6>> >>)

\* writeSongInfo leaving out the optional strings that are empty
writeSongInfoSparse(w, s) ==
    LET comments == IF "comments" \in DOMAIN s.info THEN s.info.comments
                    ELSE <<>>
    IN  perform(w,
           << <<"writeString", s.info.title>> >>
           \o when(truthyString(s.info, "subtitle"),
                   << <<"writeString", orEmpty(s.info, "subtitle")>> >>)
           \o when(truthyString(s.info, "artist"),
                   << <<"writeString", orEmpty(s.info, "artist")>> >>)
           \o when(truthyString(s.info, "album"),
                   << <<"writeString", orEmpty(s.info, "album")>> >>)
           \o when(truthyString(s.info, "author"),
                   << <<"writeString", orEmpty(s.info, "author")>> >>)
           \o when(truthyString(s.info, "copyright"),
                   << <<"writeString", orEmpty(s.info, "copyright")>> >>)
           \o when(truthyString(s.info, "writer"),
                   << <<"writeString", orEmpty(s.info, "writer")>> >>)
           \o when(truthyString(s.info, "instructions"),
                   << <<"writeString", orEmpty(s.info, "instructions")>> >>)
           \o << <<"writeInt", Len(comments)>> >>
           \o each("writeString", comments))

\* writeSongInfo writing the song's tempo and key after the comments
writeSongInfoTempo(w, s) ==
    LET comments == IF "comments" \in DOMAIN s.info THEN s.info.comments
                    ELSE <<>>
    IN  perform(w,
           << <<"writeString", s.info.title>>,
              <<"writeString", orEmpty(s.info, "subtitle")>>,
              <<"writeString", orEmpty(s.info, "artist")>>,
              <<"writeString", orEmpty(s.info, "album")>>,
              <<"writeString", orEmpty(s.info, "author")>>,
              <<"writeString", orEmpty(s.info, "copyright")>>,
              <<"writeString", orEmpty(s.info, "writer")>>,
              <<"writeString", orEmpty(s.info, "instructions")>>,
              <<"writeInt", Len(comments)>> >>
           \o each("writeString", comments)
           \o << <<"writeInt", s.tempo>>, <<"writeSignedByte", s.key>> >>)

writeSongInfo(w, s) ==
    LET comments == IF "comments" \in DOMAIN s.info THEN s.info.comments
                    ELSE <<>>
    IN  perform(w,
           << <<"writeString", s.info.title>>,
              <<"writeString", orEmpty(s.info, "subtitle")>>,
              <<"writeString", orEmpty(s.info, "artist")>>,
              <<"writeString", orEmpty(s.info, "album")>>,
              <<"writeString", orEmpty(s.info, "author")>>,
              <<"writeString", orEmpty(s.info, "copyright")>>,
              <<"writeString", orEmpty(s.info, "writer")>>,
              <<"writeString", orEmpty(s.info, "instructions")>>,
              <<"writeInt", Len(comments)>> >>
           \o each("writeString", comments))

writeTrack(w, track) ==
    perform(w,
       << <<"writeByte", 0>>,
          <<"writeString", track.name>>,
          <<"writeInt", Len(track.tuning.strings)>> >>
       \o each("writeInt", track.tuning.strings)
       \o << <<"writeInt", track.midiChannel.channel>>,
             <<"writeInt", track.midiChannel.effectChannel>>,
             <<"writeInt", track.midiChannel.instrument>>,
             <<"writeInt", track.volume>>,
             <<"writeInt", track.balance>>,
             <<"writeInt", track.chorus>>,
             <<"writeInt", track.reverb>>,
             <<"writeInt", track.phaser>>,
             <<"writeInt", track.tremolo>>,
             <<"writeColor", track.color.r, track.color.g, track.color.b>>,
             <<"writeInt", track.fretCount>>,
             <<"writeInt", track.offset>> >>)

\* durationToValue passing an unrecognized duration through
durationToValuePass(duration) ==
    IF duration \in {WHOLE, HALF, QUARTER, EIGHTH, SIXTEENTH, THIRTY_SECOND}
    THEN duration ELSE duration % 256

\* durationToValue with the EIGHTH case returning the quarter-note value
durationToValueSlip(duration) ==
    CASE duration = WHOLE -> 1
      [] duration = HALF -> 2
      [] duration = QUARTER -> 4
      [] duration = EIGHTH -> 4
      [] duration = SIXTEENTH -> 16
      [] duration = THIRTY_SECOND -> 32
      [] OTHER -> 4

durationToValue(duration) ==
    CASE duration = WHOLE -> 1
      [] duration = HALF -> 2
      [] duration = QUARTER -> 4
      [] duration = EIGHTH -> 8
      [] duration = SIXTEENTH -> 16
      [] duration = THIRTY_SECOND -> 32
      [] OTHER -> 4

\* let flags = 0; if (c) flags |= bit; for each <<c, bit>>
RECURSIVE flagsOf(_)
flagsOf(bits) ==
    IF bits = <<>> THEN 0
    ELSE (IF Head(bits)[1] THEN Head(bits)[2] ELSE 0) + flagsOf(Tail(bits))

\* writeNote writing the fret before the string
writeNoteFretFirst(w, note) ==
    LET flags == flagsOf(<<
            <<truthyBoolean(note, "ghost"), 1>>,
            <<truthyBoolean(note, "accentuated"), 2>>,
            <<truthyBoolean(note, "heavyAccentuated"), 4>>,
            <<truthyBoolean(note, "palmMute"), 8>>,
            <<truthyBoolean(note, "vibrato"), 16>>,
            <<truthyBoolean(note, "harmonic"), 32>>,
            <<truthyBoolean(note, "trill"), 64>>,
            <<truthyBoolean(note, "slide"), 128>> >>)
    IN  perform(w, << <<"writeByte", flags>>,
                      <<"writeByte", note.fret>>,
                      <<"writeByte", note.string>>,
                      <<"writeByte", note.velocity>> >>)

writeNote(w, note) ==
    LET flags == flagsOf(<<
            <<truthyBoolean(note, "ghost"), 1>>,
            <<truthyBoolean(note, "accentuated"), 2>>,
            <<truthyBoolean(note, "heavyAccentuated"), 4>>,
            <<truthyBoolean(note, "palmMute"), 8>>,
            <<truthyBoolean(note, "vibrato"), 16>>,
            <<truthyBoolean(note, "harmonic"), 32>>,
            <<truthyBoolean(note, "trill"), 64>>,
            <<truthyBoolean(note, "slide"), 128>> >>)
    IN  perform(w, << <<"writeByte", flags>>,
                      <<"writeByte", note.string>>,
                      <<"writeByte", note.fret>>,
                      <<"writeByte", note.velocity>> >>)

\* for (const note of beat.notes) this.writeNote(note)
RECURSIVE writeNotes(_, _)
writeNotes(w, notes) ==
    IF notes = <<>> THEN w
    ELSE IF w.threw THEN w
    ELSE writeNotes(writeNote(w, Head(notes)), Tail(notes))

\* writeBeat without the rest bit
writeBeatRestless(w, beat) ==
    LET flags == flagsOf(<<
            <<truthyBoolean(beat, "dotted"), 1>>,
            <<truthyString(beat, "text"), 4>> >>)
    IN  writeNotes(
           perform(w,
              << <<"writeByte", flags>>,
                 <<"writeByte", durationToValue(beat.duration)>>,
                 <<"writeInt", beat.tuplet>> >>
              \o when(truthyString(beat, "text"),
                      << <<"writeString", beat.text>> >>)
              \o << <<"writeInt", Len(beat.notes)>> >>),
           beat.notes)

writeBeat(w, beat) ==
    LET flags == flagsOf(<<
            <<truthyBoolean(beat, "dotted"), 1>>,
            <<truthyBoolean(beat, "rest"), 2>>,
            <<truthyString(beat, "text"), 4>> >>)
    IN  writeNotes(
           perform(w,
              << <<"writeByte", flags>>,
                 <<"writeByte", durationToValue(beat.duration)>>,
                 <<"writeInt", beat.tuplet>> >>
              \o when(truthyString(beat, "text"),
                      << <<"writeString", beat.text>> >>)
              \o << <<"writeInt", Len(beat.notes)>> >>),
           beat.notes)

\* for (const beat of measure.beats) this.writeBeat(beat)
RECURSIVE writeBeats(_, _)
writeBeats(w, beats) ==
    IF beats = <<>> THEN w
    ELSE IF w.threw THEN w
    ELSE writeBeats(writeBeat(w, Head(beats)), Tail(beats))

\* writeMeasure writing a byte for the repeat-open flag after the marker
writeMeasureRepeatByte(w, measure) ==
    LET flags == flagsOf(<<
            <<truthyObject(measure, "timeSignature"), 1>>,
            <<truthyObject(measure, "keySignature"), 2>>,
            <<truthyString(measure, "marker"), 4>>,
            <<truthyBoolean(measure, "repeatOpen"), 8>>,
            <<truthyNumber(measure, "repeatClose"), 16>>,
            <<truthyNumber(measure, "tempo"), 32>> >>)
    IN  writeBeats(
           perform(w,
              << <<"writeByte", flags>> >>
              \o when(truthyObject(measure, "timeSignature"),
                      << <<"writeByte", measure.timeSignature.numerator>>,
                         <<"writeByte", measure.timeSignature.denominator>> >>)
              \o when(truthyObject(measure, "keySignature"),
                      << <<"writeSignedByte", measure.keySignature.value>>,
                         <<"writeBoolean", measure.keySignature.minor>> >>)
              \o when(truthyString(measure, "marker"),
                      << <<"writeString", measure.marker>> >>)
              \o when(truthyBoolean(measure, "repeatOpen"),
                      << <<"writeByte", 1>> >>)
              \o when(truthyNumber(measure, "repeatClose"),
                      << <<"writeByte", measure.repeatClose>> >>)
              \o when(truthyNumber(measure, "tempo"),
                      << <<"writeInt", measure.tempo>> >>)
              \o << <<"writeInt", Len(measure.beats)>> >>),
           measure.beats)

writeMeasure(w, measure) ==
    LET flags == flagsOf(<<
            <<truthyObject(measure, "timeSignature"), 1>>,
            <<truthyObject(measure, "keySignature"), 2>>,
            <<truthyString(measure, "marker"), 4>>,
            <<truthyBoolean(measure, "repeatOpen"), 8>>,
            <<truthyNumber(measure, "repeatClose"), 16>>,
            <<truthyNumber(measure, "tempo"), 32>> >>)
    IN  writeBeats(
           perform(w,
              << <<"writeByte", flags>> >>
              \o when(truthyObject(measure, "timeSignature"),
                      << <<"writeByte", measure.timeSignature.numerator>>,
                         <<"writeByte", measure.timeSignature.denominator>> >>)
              \o when(truthyObject(measure, "keySignature"),
                      << <<"writeSignedByte", measure.keySignature.value>>,
                         <<"writeBoolean", measure.keySignature.minor>> >>)
              \o when(truthyString(measure, "marker"),
                      << <<"writeString", measure.marker>> >>)
              \o when(truthyNumber(measure, "repeatClose"),
                      << <<"writeByte", measure.repeatClose>> >>)
              \o when(truthyNumber(measure, "tempo"),
                      << <<"writeInt", measure.tempo>> >>)
              \o << <<"writeInt", Len(measure.beats)>> >>),
           measure.beats)

\* track.measures[i] || { beats: [] }
measureAt(track, i) ==
    IF i < Len(track.measures) THEN track.measures[i + 1]
    ELSE [beats |-> <<>>]

\* the loop of writeTrackMeasures from index i on
RECURSIVE writeTrackMeasuresFrom(_, _, _, _)
writeTrackMeasuresFrom(w, track, measureCount, i) ==
    IF i < measureCount /\ ~w.threw
    THEN writeTrackMeasuresFrom(writeMeasure(w, measureAt(track, i)),
                                track, measureCount, i + 1)
    ELSE w

\* writeTrackMeasures writing the track's own measures and no padding
writeTrackMeasuresOwn(w, track, measureCount) ==
    writeTrackMeasuresFrom(w, track, Len(track.measures), 0)

writeTrackMeasures(w, track, measureCount) ==
    writeTrackMeasuresFrom(w, track, measureCount, 0)

\* for (const track of song.tracks) this.writeTrack(track)
RECURSIVE writeTrackList(_, _)
writeTrackList(w, tracks) ==
    IF tracks = <<>> THEN w
    ELSE IF w.threw THEN w
    ELSE writeTrackList(writeTrack(w, Head(tracks)), Tail(tracks))

writeTracks(w, s) ==
    writeTrackList(perform(w, << <<"writeInt", Len(s.tracks)>> >>), s.tracks)

\* for (const track of song.tracks) this.writeTrackMeasures(track, count)
RECURSIVE writeMeasureList(_, _, _)
writeMeasureList(w, tracks, measureCount) ==
    IF tracks = <<>> THEN w
    ELSE IF w.threw THEN w
    ELSE writeMeasureList(writeTrackMeasures(w, Head(tracks), measureCount),
                          Tail(tracks), measureCount)

writeMeasures(w, s) ==
    writeMeasureList(perform(w, << <<"writeInt", s.measureCount>> >>),
                     s.tracks, s.measureCount)

\* GP6Writer.write as one call: the writer after it
write(w, s) ==
    LET w1 == writeHeader(w)
    IN  IF w1.threw THEN w1 ELSE
    LET w2 == writeSongInfo(w1, s)
    IN  IF w2.threw THEN w2 ELSE
    LET w3 == writeTracks(w2, s)
    IN  IF w3.threw THEN w3 ELSE writeMeasures(w3, s)

\* writeGP6File(song): a new GP6Writer, then write; the Buffer returned
writeGP6File(s) == toBuffer(write(newGP6Writer.writer, s))

---------------------------------------------------------------------------
(* Inputs: documents assembled with the model's functions and by setting  *)
(* fields directly, as callers do                                          *)

StrEmpty == <<>>
StrT == <<84>>
\* "e" with an acute accent: two bytes in UTF-8
StrAccent == <<233>>

NoteInputs ==
    { createNote(5, 1, 95),
      with(with(createNote(0, 2, 127), "ghost", TRUE), "slide", TRUE),
      with(with(with(createNote(12, 3, 128), "accentuated", TRUE),
                "palmMute", TRUE), "harmonic", TRUE),
      with(with(with(createNote(7, 6, 0), "heavyAccentuated", TRUE),
                "vibrato", TRUE), "trill", TRUE),
      [fret |-> 24, string |-> 4, velocity |-> 64, ghost |-> TRUE,
       accentuated |-> TRUE, heavyAccentuated |-> TRUE, palmMute |-> TRUE,
       vibrato |-> TRUE, harmonic |-> TRUE, trill |-> TRUE, slide |-> TRUE],
      createNote(300, 1, 95) }

DurationInputs == {WHOLE, HALF, QUARTER, EIGHTH, SIXTEENTH, THIRTY_SECOND,
                   0, 3, 64, 300}

\* beats of every duration, and quarter-note beats with the other fields set
BeatInputs ==
    { createBeat(d) : d \in DurationInputs }
    \cup { addNoteToBeat(createBeat(d), n) :
              d \in {EIGHTH, 3}, n \in NoteInputs }
    \cup { with(with(createBeat(QUARTER), "dotted", dotted), "rest", rest) :
              dotted \in BOOLEAN, rest \in BOOLEAN }
    \cup { with(createBeat(HALF), "text", text) : text \in {StrEmpty, StrT} }
    \cup { with(addNoteToBeat(createBeat(SIXTEENTH), createNote(5, 1, 95)),
                "rest", TRUE) }

\* every optional field of a measure absent, falsy or set
WithOptional(rs, f, values) ==
    rs \cup { with(r, f, v) : r \in rs, v \in values }

MeasureOptionInputs ==
    LET m0 == {createMeasure, setTimeSignature(createMeasure, 4, 4)}
        m1 == WithOptional(m0, "keySignature",
                           {[value |-> -1, minor |-> TRUE]})
        m2 == WithOptional(m1, "marker", {StrEmpty, StrT})
        m3 == WithOptional(m2, "repeatOpen", {TRUE})
        m4 == WithOptional(m3, "repeatClose", {0, 2})
    IN  m4 \cup { setMeasureTempo(m, tempo) : m \in m4, tempo \in {0, 90} }

MeasureInputs ==
    MeasureOptionInputs
    \cup { addBeatToMeasure(createMeasure, b) : b \in BeatInputs }
    \cup { addBeatToMeasure(addBeatToMeasure(
               setTimeSignature(createMeasure, 3, 4), createBeat(EIGHTH)),
               addNoteToBeat(createBeat(WHOLE), createNote(5, 1, 95))) }

Measure44 ==
    addBeatToMeasure(setTimeSignature(createMeasure, 4, 4),
                     addNoteToBeat(createBeat(QUARTER), createNote(5, 1, 95)))

\* tracks with zero to three measures
TrackInputs ==
    { createTrack(StrT, 1),
      addMeasureToTrack(createTrack(StrAccent, 2), Measure44),
      addMeasureToTrack(addMeasureToTrack(createTrack(StrT, 1),
          setMeasureTempo(createMeasure, 90)), Measure44),
      addMeasureToTrack(addMeasureToTrack(addMeasureToTrack(
          setTuning(createTrack(StrEmpty, 6), <<40>>),
          createMeasure), Measure44), with(createMeasure, "repeatOpen", TRUE)) }

RECURSIVE SongsWith(_, _)
SongsWith(songs, n) ==
    IF n = 0 THEN songs
    ELSE songs \cup SongsWith({ addTrackToSong(s, t) :
                                   s \in songs, t \in TrackInputs }, n - 1)

\* songs of up to MaxTracks tracks
BuiltSongs ==
    SongsWith({ createSong(StrT, StrEmpty), createSong(StrAccent, StrT) },
              MaxTracks)

\* songs whose fields a caller set directly: comments, the measure count
LiteralSongs ==
    { with(s, "info", with(s.info, "comments", <<StrT, StrAccent>>)) :
         s \in SongsWith({createSong(StrT, StrT)}, 1) }
    \cup { with(addTrackToSong(createSong(StrT, StrEmpty), t),
                "measureCount", n) : t \in TrackInputs, n \in 0..3 }
    \cup { [info |-> [title |-> StrT], tracks |-> <<>>, tempo |-> 120,
            key |-> 0, measureCount |-> 0],
           createSong(StrEmpty, StrEmpty) }

\* one track holding one measure
RecordSongs ==
    { addTrackToSong(createSong(StrT, StrEmpty),
                     addMeasureToTrack(createTrack(StrT, 1), m)) :
         m \in MeasureInputs }

\* one track holding a measure and then the same measure with repeatOpen set
RepeatOpenSongs ==
    { addTrackToSong(createSong(StrT, StrEmpty),
                     addMeasureToTrack(
                        addMeasureToTrack(createTrack(StrT, 1), m),
                        with(m, "repeatOpen", TRUE))) :
         m \in { Measure44,
                 with(createMeasure, "repeatOpen", FALSE),
                 setMeasureTempo(with(setTimeSignature(createMeasure, 3, 4),
                                      "marker", StrT), 90),
                 with(with(createMeasure, "repeatClose", 2),
                      "keySignature", [value |-> -1, minor |-> TRUE]) } }

SongInputs ==
    BuiltSongs \cup LiteralSongs \cup RecordSongs \cup RepeatOpenSongs

---------------------------------------------------------------------------
(* GP6Writer.write, one statement of its body per step *)

\* the statement after statement p of write()
nextStatementSwapped(p) ==
    CASE p = "writeHeader" -> "writeSongInfo"
      [] p = "writeSongInfo" -> "writeMeasures"
      [] p = "writeMeasures" -> "writeTracks"
      [] p = "writeTracks" -> "return"

nextStatement(p) ==
    CASE p = "writeHeader" -> "writeSongInfo"
      [] p = "writeSongInfo" -> "writeTracks"
      [] p = "writeTracks" -> "writeMeasures"
      [] p = "writeMeasures" -> "return"

\* a statement of write() has run and left the BinaryWriter as w: go on, or
\* let its exception leave write()
Advance(w) ==
    /\ gp6' = [writer |-> [w EXCEPT !.threw = FALSE]]
    /\ pc' = IF w.threw THEN "threw" ELSE nextStatement(pc)
    /\ UNCHANGED <<tasks, disk, heap, done, song, arg, ret, calls, writer, ref, last, err, ops>>

\* writer.write(song) on the instance at hand
CallWrite ==
    /\ pc \in {"idle", "threw"}
    /\ calls < MaxWrites
    /\ arg' = song
    /\ calls' = calls + 1
    /\ pc' = "writeHeader"
    /\ UNCHANGED <<tasks, disk, heap, done, song, gp6, ret, writer, ref, last, err, ops>>

\* writeGP6File(song): const writer = new GP6Writer(); writer.write(song)
CallWriteGP6File ==
    /\ pc \in {"idle", "threw"}
    /\ gp6' = newGP6Writer
    /\ arg' = song
    /\ calls' = 1
    /\ pc' = "writeHeader"
    /\ UNCHANGED <<tasks, disk, heap, done, song, ret, writer, ref, last, err, ops>>

StepWriteHeader ==
    /\ pc = "writeHeader"
    /\ Advance(writeHeader(gp6.writer))

StepWriteSongInfo ==
    /\ pc = "writeSongInfo"
    /\ Advance(writeSongInfo(gp6.writer, arg))

StepWriteTracks ==
    /\ pc = "writeTracks"
    /\ Advance(writeTracks(gp6.writer, arg))

StepWriteMeasures ==
    /\ pc = "writeMeasures"
    /\ Advance(writeMeasures(gp6.writer, arg))

StepReturn ==
    /\ pc = "return"
    /\ ret' = toBuffer(gp6.writer)
    /\ pc' = "idle"
    /\ UNCHANGED <<tasks, disk, heap, done, song, gp6, arg, calls, writer, ref, last, err, ops>>

InitBuffer ==
    /\ writer = newBinaryWriter(DefaultSize)
    /\ ref = newBinaryWriter(DefaultSize)
    /\ last = [op |-> "constructor", value |-> <<>>]
    /\ err = FALSE
    /\ ops = 0

InitGP6 ==
    /\ gp6 = newGP6Writer
    /\ pc = "idle"
    /\ arg = createSong(StrEmpty, StrEmpty)
    /\ ret = <<>>
    /\ calls = 0

InitWriter ==
    /\ song \in SongInputs
    /\ InitGP6
    /\ InitBuffer
    /\ InitHeap
    /\ InitServer

NextWriter ==
    \/ CallWrite
    \/ CallWriteGP6File
    \/ StepWriteHeader
    \/ StepWriteSongInfo
    \/ StepWriteTracks
    \/ StepWriteMeasures
    \/ StepReturn

SpecWriter == InitWriter /\ [][NextWriter]_vars

---------------------------------------------------------------------------
(* Reading a byte sequence back by the file layout: header, song           *)
(* metadata, track table, measure table.  Offsets are 0-based; a reader    *)
(* returns the offset after what it read as end, or -1 when the bytes do   *)
(* not hold the record.                                                    *)

hasBit(flags, bit) == (flags \div bit) % 2 = 1

readByte(b, p) ==
    IF p < 0 \/ p + 1 > Len(b) THEN [v |-> 0, end |-> -1]
    ELSE [v |-> b[p + 1], end |-> p + 1]

readInt(b, p) ==
    IF p < 0 \/ p + 4 > Len(b) THEN [v |-> 0, end |-> -1]
    ELSE [v |-> b[p + 1] + 256 * b[p + 2] + 65536 * b[p + 3]
                + 16777216 * (IF b[p + 4] >= 128 THEN b[p + 4] - 256
                              ELSE b[p + 4]),
          end |-> p + 4]

readBytes(b, p, n) ==
    IF p < 0 \/ n < 0 \/ p + n > Len(b) THEN [v |-> <<>>, end |-> -1]
    ELSE [v |-> SubSeq(b, p + 1, p + n), end |-> p + n]

readString(b, p) ==
    LET n == readInt(b, p) IN readBytes(b, n.end, n.v)

RECURSIVE readStrings(_, _, _)
readStrings(b, p, n) ==
    IF n <= 0 \/ p < 0 THEN [v |-> <<>>, end |-> p]
    ELSE LET x == readString(b, p)
             r == readStrings(b, x.end, n - 1)
         IN  [v |-> <<x.v>> \o r.v, end |-> r.end]

RECURSIVE readInts(_, _, _)
readInts(b, p, n) ==
    IF n <= 0 \/ p < 0 THEN [v |-> <<>>, end |-> p]
    ELSE LET x == readInt(b, p)
             r == readInts(b, x.end, n - 1)
         IN  [v |-> <<x.v>> \o r.v, end |-> r.end]

readNote(b, p) ==
    LET x == readBytes(b, p, 4)
    IN  IF x.end < 0 THEN [v |-> <<>>, end |-> -1]
        ELSE [v |-> [flags |-> x.v[1], string |-> x.v[2], fret |-> x.v[3],
                     velocity |-> x.v[4]],
              end |-> x.end]

RECURSIVE readNotes(_, _, _)
readNotes(b, p, n) ==
    IF n <= 0 \/ p < 0 THEN [v |-> <<>>, end |-> p]
    ELSE LET x == readNote(b, p)
             r == readNotes(b, x.end, n - 1)
         IN  [v |-> <<x.v>> \o r.v, end |-> r.end]

readBeat(b, p) ==
    LET flags    == readByte(b, p)
        duration == readByte(b, flags.end)
        tuplet   == readInt(b, duration.end)
        text     == IF hasBit(flags.v, 4) THEN readString(b, tuplet.end)
                    ELSE [v |-> <<>>, end |-> tuplet.end]
        count    == readInt(b, text.end)
        notes    == readNotes(b, count.end, count.v)
    IN  [v |-> [flags |-> flags.v, duration |-> duration.v,
                tuplet |-> tuplet.v, text |-> text.v, notes |-> notes.v],
         end |-> IF count.end < 0 THEN -1 ELSE notes.end]

RECURSIVE readBeats(_, _, _)
readBeats(b, p, n) ==
    IF n <= 0 \/ p < 0 THEN [v |-> <<>>, end |-> p]
    ELSE LET x == readBeat(b, p)
             r == readBeats(b, x.end, n - 1)
         IN  [v |-> <<x.v>> \o r.v, end |-> r.end]

\* payload holds the bytes between the flags byte and the beat count, bytes
\* the whole record
readMeasure(b, p) ==
    LET flags   == readByte(b, p)
        timeSig == IF hasBit(flags.v, 1) THEN readBytes(b, flags.end, 2)
                   ELSE [v |-> <<>>, end |-> flags.end]
        keySig  == IF hasBit(flags.v, 2) THEN readBytes(b, timeSig.end, 2)
                   ELSE [v |-> <<>>, end |-> timeSig.end]
        marker  == IF hasBit(flags.v, 4) THEN readString(b, keySig.end)
                   ELSE [v |-> <<>>, end |-> keySig.end]
        close   == IF hasBit(flags.v, 16) THEN readBytes(b, marker.end, 1)
                   ELSE [v |-> <<>>, end |-> marker.end]
        tempo   == IF hasBit(flags.v, 32) THEN readInts(b, close.end, 1)
                   ELSE [v |-> <<>>, end |-> close.end]
        count   == readInt(b, tempo.end)
        beats   == readBeats(b, count.end, count.v)
    IN  [v |-> [flags |-> flags.v, timeSignature |-> timeSig.v,
                keySignature |-> keySig.v, marker |-> marker.v,
                repeatClose |-> close.v, tempo |-> tempo.v,
                payload |-> IF tempo.end < 0 THEN <<>>
                            ELSE SubSeq(b, p + 2, tempo.end),
                bytes |-> IF count.end < 0 \/ beats.end < 0 THEN <<>>
                          ELSE SubSeq(b, p + 1, beats.end),
                beats |-> beats.v],
         end |-> IF count.end < 0 THEN -1 ELSE beats.end]

RECURSIVE readMeasures(_, _, _)
readMeasures(b, p, n) ==
    IF n <= 0 \/ p < 0 THEN [v |-> <<>>, end |-> p]
    ELSE LET x == readMeasure(b, p)
             r == readMeasures(b, x.end, n - 1)
         IN  [v |-> <<x.v>> \o r.v, end |-> r.end]

\* nTracks measure tables of measureCount records each
RECURSIVE readMeasureTables(_, _, _, _)
readMeasureTables(b, p, nTracks, measureCount) ==
    IF nTracks <= 0 \/ p < 0 THEN [v |-> <<>>, end |-> p]
    ELSE LET x == readMeasures(b, p, measureCount)
             r == readMeasureTables(b, x.end, nTracks - 1, measureCount)
         IN  [v |-> <<x.v>> \o r.v, end |-> r.end]

readTrack(b, p) ==
    LET flags   == readByte(b, p)
        name    == readString(b, flags.end)
        strings == readInt(b, name.end)
        tuning  == readInts(b, strings.end, strings.v)
        rest    == readInts(b, IF strings.end < 0 THEN -1 ELSE tuning.end, 9)
        color   == readBytes(b, rest.end, 4)
        frets   == readInts(b, color.end, 2)
    IN  [v |-> [flags |-> flags.v, name |-> name.v, tuning |-> tuning.v,
                settings |-> rest.v, color |-> color.v, frets |-> frets.v],
         end |-> frets.end]

RECURSIVE readTracks(_, _, _)
readTracks(b, p, n) ==
    IF n <= 0 \/ p < 0 THEN [v |-> <<>>, end |-> p]
    ELSE LET x == readTrack(b, p)
             r == readTracks(b, x.end, n - 1)
         IN  [v |-> <<x.v>> \o r.v, end |-> r.end]

\* header: 31 identifier bytes and the version
readHeader(b, p) ==
    LET magic   == readBytes(b, p, 31)
        version == readInt(b, magic.end)
    IN  [v |-> [magic |-> magic.v, version |-> version.v],
         end |-> version.end]

\* song metadata: eight strings, then the comments
readSongInfo(b, p) ==
    LET strings  == readStrings(b, p, 8)
        count    == readInt(b, strings.end)
        comments == readStrings(b, count.end, count.v)
    IN  [v |-> [strings |-> strings.v, comments |-> comments.v],
         end |-> IF count.end < 0 THEN -1 ELSE comments.end]

readTrackTable(b, p) ==
    LET count  == readInt(b, p)
        tracks == readTracks(b, count.end, count.v)
    IN  [v |-> tracks.v, end |-> IF count.end < 0 THEN -1 ELSE tracks.end]

readMeasureTable(b, p, nTracks) ==
    LET count  == readInt(b, p)
        tables == readMeasureTables(b, count.end, nTracks, count.v)
    IN  [v |-> [measureCount |-> count.v, tracks |-> tables.v],
         end |-> IF count.end < 0 THEN -1 ELSE tables.end]

\* a whole file; end = Len(b) when the bytes hold exactly one file
readFile(b) ==
    LET header   == readHeader(b, 0)
        info     == readSongInfo(b, header.end)
        tracks   == readTrackTable(b, info.end)
        measures == readMeasureTable(b, tracks.end, Len(tracks.v))
    IN  [header |-> header.v, info |-> info.v, tracks |-> tracks.v,
         measureCount |-> measures.v.measureCount,
         measures |-> measures.v.tracks,
         infoAt |-> header.end, tracksAt |-> info.end,
         measuresAt |-> tracks.end, end |-> measures.end]

\* the write call at hand has returned
Returned == pc = "idle" /\ calls >= 1

\* ... and wrote to a GP6Writer no earlier call had used, as writeGP6File does
ReturnedFresh == Returned /\ calls = 1

---------------------------------------------------------------------------
(* The document model driven by a caller *)

TempoInputs == {60, 120, 240}

InitModel ==
    /\ song \in { createSong(title, artist) :
                     title \in {StrT, StrAccent}, artist \in {StrEmpty, StrT} }
    /\ InitGP6
    /\ InitBuffer
    /\ InitHeap
    /\ InitServer

CreateSong ==
    /\ \E title \in {StrT, StrAccent}, artist \in {StrEmpty, StrT} :
          song' = createSong(title, artist)
    /\ UNCHANGED <<tasks, disk, heap, done, gp6, pc, arg, ret, calls, writer, ref, last, err, ops>>

AddTrackToSong ==
    /\ Len(song.tracks) < MaxTracks
    /\ \E track \in TrackInputs : song' = addTrackToSong(song, track)
    /\ UNCHANGED <<tasks, disk, heap, done, gp6, pc, arg, ret, calls, writer, ref, last, err, ops>>

SetSongTempo ==
    /\ \E tempo \in TempoInputs : song' = setSongTempo(song, tempo)
    /\ UNCHANGED <<tasks, disk, heap, done, gp6, pc, arg, ret, calls, writer, ref, last, err, ops>>

NextModel ==
    \/ CreateSong
    \/ AddTrackToSong
    \/ SetSongTempo

SpecModel == InitModel /\ [][NextModel]_vars

---------------------------------------------------------------------------
(* A BinaryWriter of a small initial size driven by a caller, and one of   *)
(* the default size given the same operations                              *)

\* "Té€": characters of one, two and three UTF-8 bytes
StrMixed == <<84, 233, 8364>>

StrLong(cp, n) == Rep(cp, n)

StringInputs ==
    { StrEmpty, StrT, StrAccent, StrLong(65, 255), StrLong(65, 256),
      StrLong(233, 128) }

\* the caller issues one operation on both writers; an exception it catches
Issue(op, value, w, r) ==
    /\ ops < MaxOps
    /\ ops' = ops + 1
    /\ last' = [op |-> op, value |-> value]
    /\ writer' = [w EXCEPT !.threw = FALSE]
    /\ ref' = [r EXCEPT !.threw = FALSE]
    /\ err' = w.threw
    /\ UNCHANGED <<tasks, disk, heap, done, song, gp6, pc, arg, ret, calls>>

DoWriteByte ==
    \E value \in {1, 255, 256, -1} :
        Issue("writeByte", <<value>>, writeByte(writer, value),
              writeByte(ref, value))

DoWriteSignedByte ==
    \E value \in {-128, 127, 128} :
        Issue("writeSignedByte", <<value>>, writeSignedByte(writer, value),
              writeSignedByte(ref, value))

DoWriteInt ==
    \E value \in {6, -2, 66051} :
        Issue("writeInt", <<value>>, writeInt(writer, value),
              writeInt(ref, value))

DoWriteBoolean ==
    \E value \in BOOLEAN :
        Issue("writeBoolean", <<value>>, writeBoolean(writer, value),
              writeBoolean(ref, value))

DoWriteString ==
    \E value \in {StrEmpty, StrAccent, StrMixed} :
        Issue("writeString", value, writeString(writer, value),
              writeString(ref, value))

DoWriteByteString ==
    \E value \in StringInputs :
        Issue("writeByteString", value, writeByteString(writer, value),
              writeByteString(ref, value))

DoWriteFixedString ==
    \E value \in {StrT, StrAccent, StrMixed}, length \in {0, 1, 3} :
        Issue("writeFixedString", <<value, length>>,
              writeFixedString(writer, value, length),
              writeFixedString(ref, value, length))

DoWriteBytes ==
    \E bytes \in {<<>>, <<9, 8>>} :
        Issue("writeBytes", bytes, writeBytes(writer, bytes),
              writeBytes(ref, bytes))

DoWriteColor ==
    \E c \in {<<255, 0, 7>>, <<1, 256, 3>>} :
        Issue("writeColor", c, writeColor(writer, c[1], c[2], c[3]),
              writeColor(ref, c[1], c[2], c[3]))

DoSkip ==
    \E count \in {0, 2} :
        Issue("skip", <<count>>, skip(writer, count), skip(ref, count))

\* the caller reads the cursor: getPosition() returns this.position
DoGetPosition ==
    /\ last' = [op |-> "getPosition", value |-> <<getPosition(writer)>>]
    /\ err' = FALSE
    /\ UNCHANGED <<tasks, disk, heap, done, writer, ref, ops, song, gp6, pc, arg, ret, calls>>

\* the caller takes the written data: toBuffer() returns the subarray
DoToBuffer ==
    /\ last' = [op |-> "toBuffer", value |-> toBuffer(writer)]
    /\ err' = FALSE
    /\ UNCHANGED <<tasks, disk, heap, done, writer, ref, ops, song, gp6, pc, arg, ret, calls>>

InitBinaryWriter ==
    /\ \E size \in 0..MaxCap : writer = newBinaryWriter(size)
    /\ ref = newBinaryWriter(DefaultSize)
    /\ last = [op |-> "constructor", value |-> <<>>]
    /\ err = FALSE
    /\ ops = 0
    /\ song = createSong(StrEmpty, StrEmpty)
    /\ InitGP6
    /\ InitHeap
    /\ InitServer

NextBuffer ==
    \/ DoWriteByte
    \/ DoWriteSignedByte
    \/ DoWriteInt
    \/ DoWriteBoolean
    \/ DoWriteString
    \/ DoWriteByteString
    \/ DoWriteFixedString
    \/ DoWriteBytes
    \/ DoWriteColor
    \/ DoSkip
    \/ DoGetPosition
    \/ DoToBuffer

SpecBuffer == InitBinaryWriter /\ [][NextBuffer]_vars

---------------------------------------------------------------------------
(* The tools: createGuitarProFile and createSimpleGuitarProFile *)

\* '.gp6'
Gp6 == <<46, 103, 112, 54>>

\* String.prototype.endsWith
endsWith(s, suffix) ==
    /\ Len(s) >= Len(suffix)
    /\ SubSeq(s, Len(s) - Len(suffix) + 1, Len(s)) = suffix

\* the file name with '.gp6' appended whatever its ending
finalFilenameAlways(filename) == filename \o Gp6

\* filename.endsWith('.gp6') ? filename : `${filename}.gp6`
finalFilename(filename) ==
    IF endsWith(filename, Gp6) THEN filename ELSE filename \o Gp6

\* path.join(dir, name) of a directory that does not end with a separator
\* and a name without separators: the two joined by '/'
join(dir, name) == dir \o <<47>> \o name

\* getDefaultOutputDirectory(): the Music directory of the user, '/M' here
MusicDirectory == <<47, 77>>

\* outputDirectory || getDefaultOutputDirectory()
outputDirectoryOf(args) ==
    IF truthyString(args, "outputDirectory") THEN args.outputDirectory
    ELSE MusicDirectory

\* tabString.split('-'): the parts between the dashes, at least one
RECURSIVE split(_, _)
split(s, sep) ==
    IF \A i \in 1..Len(s) : s[i] # sep THEN <<s>>
    ELSE LET i == CHOOSE k \in 1..Len(s) :
                     s[k] = sep /\ \A j \in 1..(k - 1) : s[j] # sep
         IN  <<SubSeq(s, 1, i - 1)>> \o split(SubSeq(s, i + 1, Len(s)), sep)

\* the value of the longest prefix of decimal digits of s, after value
RECURSIVE digits(_, _)
digits(s, value) ==
    IF s = <<>> \/ Head(s) < 48 \/ Head(s) > 57 THEN value
    ELSE digits(Tail(s), 10 * value + (Head(s) - 48))

\* s without its leading white space (space, tab, line feed)
RECURSIVE trimStart(_)
trimStart(s) ==
    IF s # <<>> /\ Head(s) \in {32, 9, 10} THEN trimStart(Tail(s)) ELSE s

\* parseInt(f, 10): white space is skipped, then a sign, then the digits up
\* to the first character that is none; NaN when there is no digit
parseInt(f) ==
    LET t        == trimStart(f)
        negative == t # <<>> /\ Head(t) = 45
        signed   == t # <<>> /\ Head(t) \in {43, 45}
        rest     == IF signed THEN Tail(t) ELSE t
    IN  IF rest = <<>> \/ Head(rest) < 48 \/ Head(rest) > 57 THEN NaN
        ELSE IF negative THEN 0 - digits(rest, 0) ELSE digits(rest, 0)

\* createNote(noteData.fret, noteData.string, noteData.velocity || 95)
noteOf(noteData) ==
    createNote(noteData.fret, noteData.string,
               IF truthyNumber(noteData, "velocity") THEN noteData.velocity
               ELSE 95)

\* for (const noteData of beatData.notes) beat = addNoteToBeat(beat, note)
RECURSIVE addNotes(_, _)
addNotes(beat, notes) ==
    IF notes = <<>> THEN beat
    ELSE addNotes(addNoteToBeat(beat, noteOf(Head(notes))), Tail(notes))

\* beatOf setting beat.rest after the notes are added
beatOfRestLast(beatData) ==
    with(addNotes(
            with(createBeat(IF truthyNumber(beatData, "duration")
                            THEN beatData.duration ELSE QUARTER),
                 "dotted", truthyBoolean(beatData, "dotted")),
            IF "notes" \in DOMAIN beatData THEN beatData.notes ELSE <<>>),
         "rest", truthyBoolean(beatData, "rest"))

\* the beat built for beatData, lines 112 to 128: createBeat, then
\* beat.dotted = true and beat.rest = true where asked, then the notes
beatOf(beatData) ==
    addNotes(
       with(with(createBeat(IF truthyNumber(beatData, "duration")
                            THEN beatData.duration ELSE QUARTER),
                 "dotted", truthyBoolean(beatData, "dotted")),
            "rest", truthyBoolean(beatData, "rest")),
       IF "notes" \in DOMAIN beatData THEN beatData.notes ELSE <<>>)

\* for (const beatData of measureData.beats) measure = addBeatToMeasure(..)
RECURSIVE addBeats(_, _)
addBeats(measure, beats) ==
    IF beats = <<>> THEN measure
    ELSE addBeats(addBeatToMeasure(measure, beatOf(Head(beats))), Tail(beats))

\* the measure built for measureData, lines 98 to 132
measureOf(measureData) ==
    addBeats(
       IF truthyObject(measureData, "timeSignature")
       THEN setTimeSignature(createMeasure,
                             measureData.timeSignature.numerator,
                             measureData.timeSignature.denominator)
       ELSE createMeasure,
       IF "beats" \in DOMAIN measureData THEN measureData.beats ELSE <<>>)

\* for (const measureData of trackData.measures) track = addMeasureToTrack(..)
RECURSIVE addMeasures(_, _)
addMeasures(track, measures) ==
    IF measures = <<>> THEN track
    ELSE addMeasures(addMeasureToTrack(track, measureOf(Head(measures))),
                     Tail(measures))

\* the track built for trackData, lines 89 to 135
trackOf(trackData) ==
    addMeasures(
       IF "tuning" \in DOMAIN trackData
       THEN setTuning(createTrack(trackData.name,
                                  IF truthyNumber(trackData, "strings")
                                  THEN trackData.strings ELSE 6),
                      trackData.tuning)
       ELSE createTrack(trackData.name,
                        IF truthyNumber(trackData, "strings")
                        THEN trackData.strings ELSE 6),
       trackData.measures)

\* for (const trackData of tracksData) song = addTrackToSong(song, track)
RECURSIVE addTracks(_, _)
addTracks(s, tracks) ==
    IF tracks = <<>> THEN s
    ELSE addTracks(addTrackToSong(s, trackOf(Head(tracks))), Tail(tracks))

\* const { tempo = 120 } = args: the default stands in for an omitted tempo
tempoOf(args) == IF "tempo" \in DOMAIN args THEN args.tempo ELSE 120

\* createSong(title, artist), then setTempo
newSong(args) ==
    setSongTempo(createSong(args.title, orEmpty(args, "artist")),
                 tempoOf(args))

\* the song createGuitarProFile builds, lines 84 to 138; iterating over
\* tracks or measures that were left out throws a TypeError
songOf(args) ==
    IF "tracks" \notin DOMAIN args
       \/ \E i \in 1..Len(args.tracks) : "measures" \notin DOMAIN args.tracks[i]
    THEN [threw |-> "TypeError"]
    ELSE [song |-> addTracks(newSong(args), args.tracks)]

\* the beat built for one fret of a tab string, lines 189 to 191
tabBeat(fret) == addNoteToBeat(createBeat(QUARTER), createNote(fret, 1, 95))

\* tabMeasure leaving out the entries that are empty
tabMeasureSkipEmpty(tabString) ==
    LET frets == SelectSeq(split(tabString, 45), LAMBDA f : f # <<>>)
    IN  with(createMeasure, "beats",
             [i \in 1..Len(frets) |-> tabBeat(parseInt(frets[i]))])

\* the measure built for a tab string, lines 183 to 193
tabMeasure(tabString) ==
    LET frets == split(tabString, 45)
    IN  with(createMeasure, "beats",
             [i \in 1..Len(frets) |-> tabBeat(parseInt(frets[i]))])

\* the song createSimpleGuitarProFile builds, lines 175 to 198
simpleSongOf(args) ==
    IF "tablature" \notin DOMAIN args THEN [threw |-> "TypeError"]
    ELSE [song |->
            addTrackToSong(
               newSong(args),
               with(createTrack(<<71, 117, 105, 116, 97, 114>>, 6), "measures",
                    [i \in 1..Len(args.tablature) |->
                        tabMeasure(args.tablature[i])]))]

\* the two tools the server registers
Tools == {"create_guitar_pro_file", "create_simple_guitar_pro_file"}

\* the handler's answer to a failed call: isError and the message with the
\* error in it
errorResult(tool, error) ==
    [isError |-> TRUE,
     content |-> [type |-> "text",
                  text |-> [message |-> "Error creating", tool |-> tool,
                            error |-> error]]]

\* the handler's answer to a call that returned { filepath, song }: the
\* message with the location, the measure count and the tempo (and the
\* number of tracks, for create_guitar_pro_file); no isError
successResult(tool, filepath, s) ==
    [content |-> [type |-> "text",
                  text |-> IF tool = "create_guitar_pro_file"
                           THEN [message |-> "Successfully created",
                                 tool |-> tool, location |-> filepath,
                                 tracks |-> Len(s.tracks),
                                 measures |-> s.measureCount,
                                 tempo |-> s.tempo]
                           ELSE [message |-> "Successfully created",
                                 tool |-> tool, location |-> filepath,
                                 measures |-> s.measureCount,
                                 tempo |-> s.tempo]]]

\* the handler without its try and catch: the error of the tool function
\* leaves the handler
rejectedUncaught(task, error) ==
    with(with(with(task, "pc", "threw"),
              "call", [rejected |-> error]),
         "error", error)

\* the call threw error: the promise of the tool function is rejected, and
\* the handler's catch returns the error result
rejected(task, error) ==
    with(with(with(task, "pc", "returned"),
              "call", [rejected |-> error]),
         "result", errorResult(task.tool, error))

\* a tool call up to its first await: the directory, the file name and the
\* path, then fs.mkdir is pending; filename.endsWith throws a TypeError
\* when no filename was given
begin(id, tool, args) ==
    IF "filename" \notin DOMAIN args
    THEN rejected([id |-> id, tool |-> tool, args |-> args], "TypeError")
    ELSE [id |-> id, tool |-> tool, args |-> args, pc |-> "mkdir",
          dir |-> outputDirectoryOf(args),
          filepath |-> join(outputDirectoryOf(args),
                            finalFilename(args.filename))]

\* the handler of CallToolRequestSchema on request number id: a registered
\* tool runs up to its first await, any other name throws 'Unknown tool'
handle(id, request) ==
    IF request.name \in Tools
    THEN begin(id, request.name, request.arguments)
    ELSE [id |-> id, tool |-> request.name, args |-> request.arguments,
          pc |-> "threw", error |-> "Unknown tool"]

\* the song the tool builds from its arguments, or what it throws
built(task) ==
    IF task.tool = "create_guitar_pro_file" THEN songOf(task.args)
    ELSE simpleSongOf(task.args)

\* the call going on to fs.writeFile with the bytes written so far when
\* writeGP6File threw
serializedPartly(task, s, w) ==
    [id |-> task.id, tool |-> task.tool, args |-> task.args,
     pc |-> "writeFile", dir |-> task.dir, filepath |-> task.filepath,
     song |-> s, buffer |-> toBuffer(w)]

\* const buffer = writeGP6File(song) has left its BinaryWriter as w: its
\* RangeError leaves the tool function, or fs.writeFile is pending
serialized(task, s, w) ==
    IF w.threw THEN rejected(task, "RangeError")
    ELSE [id |-> task.id, tool |-> task.tool, args |-> task.args,
          pc |-> "writeFile", dir |-> task.dir, filepath |-> task.filepath,
          song |-> s, buffer |-> toBuffer(w)]

\* the call from the return of fs.mkdir to its next await: the song is
\* built and serialized
resumed(task, b) ==
    IF "threw" \in DOMAIN b THEN rejected(task, b.threw)
    ELSE serialized(task, b.song, write(newGP6Writer.writer, b.song))

\* the call after fs.writeFile: return { filepath, song }, which the
\* handler answers with the success result
returned(task) ==
    with(with(with(task, "pc", "returned"),
              "call", [resolved |-> [filepath |-> task.filepath,
                                     song |-> task.song]]),
         "result", successResult(task.tool, task.filepath, task.song))

\* fs.writeFile(filepath, buffer) done: the file holds the bytes
writeFile(d, filepath, buffer) ==
    [d EXCEPT !.files = with(@, filepath, buffer)]

\* number of requests a client that waits for each answer sends
MaxRequests == 2
\* number of requests clients send without waiting for the answers
MaxTasks == 2

\* 'a', 'a.gp6', '.gp6', 'a.GP6', 'gp6', 'a.gp6.gp6', '' and 'b'
FileA == <<97>>
FileAGp6 == <<97>> \o Gp6
FileGp6 == Gp6
FileUpper == <<97, 46, 71, 80, 54>>
FileNoDot == <<103, 112, 54>>
FileTwice == <<97>> \o Gp6 \o Gp6
FileB == <<98>>

\* '/o', an output directory a caller names
OtherDirectory == <<47, 111>>

\* beats as create_guitar_pro_file takes them: a dotted eighth rest with
\* notes of velocity 0, over 127 and left out whose second fret exceeds the
\* fret count; rests without notes and with an empty list of notes; a beat
\* without duration
BeatData ==
    << [duration |-> EIGHTH, dotted |-> TRUE, rest |-> TRUE,
        notes |-> << [string |-> 1, fret |-> 3, velocity |-> 0],
                     [string |-> 2, fret |-> 25, velocity |-> 128],
                     [string |-> 3, fret |-> 5] >>],
       [rest |-> TRUE],
       [duration |-> HALF, rest |-> TRUE, notes |-> <<>>],
       [notes |-> << [string |-> 1, fret |-> 0, velocity |-> 110] >>] >>

\* tracks as create_guitar_pro_file takes them
TrackData ==
    << [name |-> StrT,
        measures |-> << [timeSignature |-> [numerator |-> 3,
                                            denominator |-> 4],
                         beats |-> BeatData],
                        [beats |-> <<>>] >>],
       [name |-> StrAccent, strings |-> 4, tuning |-> <<40, 45>>,
        measures |-> << [timeSignature |-> [numerator |-> 4,
                                            denominator |-> 4]] >>] >>

\* a track holding a note whose fret does not fit in a byte
TrackDataTooHigh ==
    << [name |-> StrT,
        measures |-> << [beats |-> << [notes |-> << [string |-> 1,
                                                     fret |-> 256] >>] >>] >>] >>

\* the requests the server receives: the tool's name and its arguments
Requests ==
    { [name |-> "create_guitar_pro_file",
       arguments |-> [filename |-> FileA, title |-> StrT,
                      tracks |-> TrackData]],
      [name |-> "create_guitar_pro_file",
       arguments |-> [filename |-> FileAGp6, title |-> StrT,
                      artist |-> StrAccent, tempo |-> 90,
                      tracks |-> SubSeq(TrackData, 1, 1)]],
      [name |-> "create_guitar_pro_file",
       arguments |-> [filename |-> FileGp6, outputDirectory |-> OtherDirectory,
                      title |-> StrT, tracks |-> TrackDataTooHigh]],
      [name |-> "create_guitar_pro_file",
       arguments |-> [filename |-> FileUpper, title |-> StrT, tempo |-> 0]],
      [name |-> "create_guitar_pro_file",
       arguments |-> [title |-> StrT, tracks |-> <<>>]],
      [name |-> "create_simple_guitar_pro_file",
       arguments |-> [filename |-> FileB, title |-> StrT,
                      outputDirectory |-> StrEmpty,
                      tablature |-> << <<48, 45, 50, 45, 50>>, <<49, 50>> >>]],
      [name |-> "create_simple_guitar_pro_file",
       arguments |-> [filename |-> FileTwice, title |-> StrAccent,
                      outputDirectory |-> OtherDirectory, tempo |-> 140,
                      tablature |-> << <<>>,
                                       <<49, 120, 45, 32, 55, 45, 43, 51>>,
                                       <<48, 45, 45, 50>> >>]],
      [name |-> "create_simple_guitar_pro_file",
       arguments |-> [filename |-> FileNoDot, title |-> StrT,
                      tablature |-> << <<51>>, <<50, 53, 54>> >>]],
      [name |-> "create_simple_guitar_pro_file",
       arguments |-> [filename |-> StrEmpty, title |-> StrT,
                      tablature |-> <<>>]],
      [name |-> "create_simple_guitar_pro_file",
       arguments |-> [filename |-> FileB, title |-> StrT]],
      [name |-> "list_files", arguments |-> [filename |-> FileA]] }

\* the bytes of a file that the tools did not write
OldBytes == <<1, 2, 3>>

\* the file system at the start: empty, or with files at paths that calls
\* will name
DiskInputs ==
    { EmptyDisk,
      [files |-> [p \in {join(MusicDirectory, FileAGp6),
                         join(OtherDirectory, FileGp6)} |-> OldBytes],
       directories |-> {MusicDirectory, OtherDirectory}] }

\* the requests sent without waiting: two that succeed and write different
\* files, one whose song cannot be serialized
ConcurrentRequests ==
    { r \in Requests :
         /\ "filename" \in DOMAIN r.arguments
         /\ r.arguments.filename \in {FileAGp6, FileB, FileGp6}
         /\ \/ "tracks" \in DOMAIN r.arguments
            \/ "tablature" \in DOMAIN r.arguments }

\* the number of the request after those in ts
nextId(ts) == IF ts = <<>> THEN 1 ELSE ts[Len(ts)].id + 1

\* the server receives a request from a client that has the answers to its
\* earlier ones
CallTool ==
    \E request \in Requests :
       /\ \A i \in 1..Len(tasks) : tasks[i].pc \in {"returned", "threw"}
       /\ nextId(tasks) <= MaxRequests
       /\ tasks' = <<handle(nextId(tasks), request)>>
       /\ UNCHANGED <<disk, song, gp6, pc, arg, ret, calls, writer, ref, last,
                      err, ops, heap, done>>

\* the server receives a request while earlier ones may be in flight
CallToolInFlight ==
    \E request \in ConcurrentRequests :
       /\ Len(tasks) < MaxTasks
       /\ tasks' = Append(tasks, handle(nextId(tasks), request))
       /\ UNCHANGED <<disk, song, gp6, pc, arg, ret, calls, writer, ref, last,
                      err, ops, heap, done>>

\* MkdirReturns with the arguments kept in one place for all calls: a call
\* builds its song from the arguments of the latest request
MkdirReturnsLatest ==
    \E i \in 1..Len(tasks) :
       /\ tasks[i].pc = "mkdir"
       /\ disk' = [disk EXCEPT !.directories = @ \cup {tasks[i].dir}]
       /\ tasks' = [tasks EXCEPT
                       ![i] = resumed(tasks[i], built(tasks[Len(tasks)]))]
       /\ UNCHANGED <<song, gp6, pc, arg, ret, calls, writer, ref, last, err,
                      ops, heap, done>>

\* await fs.mkdir(dir, { recursive: true }) returns: the directory exists,
\* and the call runs to fs.writeFile or to the error it throws
MkdirReturns ==
    \E i \in 1..Len(tasks) :
       /\ tasks[i].pc = "mkdir"
       /\ disk' = [disk EXCEPT !.directories = @ \cup {tasks[i].dir}]
       /\ tasks' = [tasks EXCEPT ![i] = resumed(tasks[i], built(tasks[i]))]
       /\ UNCHANGED <<song, gp6, pc, arg, ret, calls, writer, ref, last, err,
                      ops, heap, done>>

\* await fs.mkdir throws: the directory cannot be created
MkdirFails ==
    \E i \in 1..Len(tasks) :
       /\ tasks[i].pc = "mkdir"
       /\ tasks' = [tasks EXCEPT ![i] = rejected(tasks[i], "EACCES")]
       /\ UNCHANGED <<disk, song, gp6, pc, arg, ret, calls, writer, ref, last,
                      err, ops, heap, done>>

\* await fs.writeFile(filepath, buffer) returns
WriteFileReturns ==
    \E i \in 1..Len(tasks) :
       /\ tasks[i].pc = "writeFile"
       /\ disk' = writeFile(disk, tasks[i].filepath, tasks[i].buffer)
       /\ tasks' = [tasks EXCEPT ![i] = returned(tasks[i])]
       /\ UNCHANGED <<song, gp6, pc, arg, ret, calls, writer, ref, last, err,
                      ops, heap, done>>

\* await fs.writeFile throws: the file could not be opened and is as it was
\* (EACCES), or the device filled up after the first 35 bytes (ENOSPC)
WriteFileFails ==
    \E i \in 1..Len(tasks) :
       /\ tasks[i].pc = "writeFile"
       /\ \/ /\ disk' = disk
             /\ tasks' = [tasks EXCEPT ![i] = rejected(tasks[i], "EACCES")]
          \/ /\ disk' = writeFile(disk, tasks[i].filepath,
                                  SubSeq(tasks[i].buffer, 1, 35))
             /\ tasks' = [tasks EXCEPT ![i] = rejected(tasks[i], "ENOSPC")]
       /\ UNCHANGED <<song, gp6, pc, arg, ret, calls, writer, ref, last, err,
                      ops, heap, done>>

InitTools ==
    /\ tasks = <<>>
    /\ disk \in DiskInputs
    /\ song = createSong(StrEmpty, StrEmpty)
    /\ InitGP6
    /\ InitBuffer
    /\ InitHeap

NextTools ==
    \/ CallTool
    \/ MkdirReturns
    \/ MkdirFails
    \/ WriteFileReturns
    \/ WriteFileFails

SpecTools == InitTools /\ [][NextTools]_vars

NextConcurrent ==
    \/ CallToolInFlight
    \/ MkdirReturns
    \/ MkdirFails
    \/ WriteFileReturns
    \/ WriteFileFails

SpecConcurrent == InitTools /\ [][NextConcurrent]_vars

---------------------------------------------------------------------------
(* Properties *)

\* the measures of track t that the writer reaches: those below measureCount
WrittenMeasures(s, t) == 1..Min(Len(s.tracks[t].measures), s.measureCount)

\* C1 (SpecWriter): a write to a fresh writer emits, after the global
\* measure count, exactly song.measureCount measure records for each track
\* and nothing else; the records past a track's own measures are empty
\* (flags byte 0, no payload, beat count 0) and the ones before them carry
\* the track's measures.
C1_TrackPadding ==
    ReturnedFresh =>
        LET f == readFile(ret)
        IN  /\ f.end = Len(ret)
            /\ f.measureCount = arg.measureCount
            /\ Len(f.measures) = Len(arg.tracks)
            /\ \A t \in 1..Len(arg.tracks) :
                  /\ Len(f.measures[t]) = arg.measureCount
                  /\ \A i \in 1..arg.measureCount :
                        IF i > Len(arg.tracks[t].measures)
                        THEN /\ f.measures[t][i].flags = 0
                             /\ f.measures[t][i].payload = <<>>
                             /\ f.measures[t][i].beats = <<>>
                        ELSE Len(f.measures[t][i].beats)
                                 = Len(arg.tracks[t].measures[i].beats)

\* C1 witness: a two-track song whose tracks hold 1 and 3 measures has been
\* written, so the first track was padded with two empty records.
C1_Witness ==
    /\ ReturnedFresh
    /\ Len(arg.tracks) = 2
    /\ Len(arg.tracks[1].measures) = 1
    /\ Len(arg.tracks[2].measures) = 3
    /\ arg.measureCount = 3

\* the largest measure-list length over the tracks, 0 for none
MaxMeasures(tracks) ==
    IF tracks = <<>> THEN 0
    ELSE CHOOSE m \in { Len(tracks[t].measures) : t \in DOMAIN tracks } :
            \A t \in DOMAIN tracks : Len(tracks[t].measures) <= m

\* C2 (SpecModel): after any sequence of createSong, addTrackToSong and
\* setTempo, song.measureCount is the maximum of track.measures.length over
\* the song's tracks, 0 without tracks.
C2_MeasureCountIsMax == song.measureCount = MaxMeasures(song.tracks)

\* C2 witness: a second, shorter track has been attached after a longer one.
C2_Witness ==
    /\ Len(song.tracks) = 2
    /\ Len(song.tracks[2].measures) < Len(song.tracks[1].measures)
    /\ song.tempo # 120

\* C3 (SpecWriter), the claim as stated: whatever write calls the GP6Writer
\* instance has served before, write(song) returns the bytes
\* writeGP6File(song) returns.
C3_WriteDependsOnlyOnSong == Returned => ret = writeGP6File(arg)

\* the payload the layout prescribes for a measure, every defined field
\* written in the fixed order
DefinedPayload(m) ==
    (IF "timeSignature" \in DOMAIN m
     THEN <<m.timeSignature.numerator, m.timeSignature.denominator>>
     ELSE <<>>)
    \o (IF "keySignature" \in DOMAIN m
        THEN <<m.keySignature.value % 256,
               IF m.keySignature.minor THEN 1 ELSE 0>>
        ELSE <<>>)
    \o (IF "marker" \in DOMAIN m
        THEN int32LE(Len(utf8(m.marker))) \o utf8(m.marker) ELSE <<>>)
    \o (IF "repeatClose" \in DOMAIN m THEN <<m.repeatClose>> ELSE <<>>)
    \o (IF "tempo" \in DOMAIN m THEN int32LE(m.tempo) ELSE <<>>)

\* C4 (SpecWriter), the claim as stated: in every measure record the bits
\* 0x01, 0x02, 0x04, 0x10 and 0x20 are set exactly when the measure has a
\* time signature, a key signature, a marker, a repeat-close count and a
\* tempo defined, whatever their values, and the payloads of the defined
\* fields follow the flags byte in that order.
C4_FlagsIffDefined ==
    ReturnedFresh =>
        LET f == readFile(ret)
        IN  \A t \in 1..Len(arg.tracks) : \A i \in WrittenMeasures(arg, t) :
               LET m   == arg.tracks[t].measures[i]
                   rec == f.measures[t][i]
               IN  /\ hasBit(rec.flags, 1) <=> "timeSignature" \in DOMAIN m
                   /\ hasBit(rec.flags, 2) <=> "keySignature" \in DOMAIN m
                   /\ hasBit(rec.flags, 4) <=> "marker" \in DOMAIN m
                   /\ hasBit(rec.flags, 16) <=> "repeatClose" \in DOMAIN m
                   /\ hasBit(rec.flags, 32) <=> "tempo" \in DOMAIN m
                   /\ rec.payload = DefinedPayload(m)

\* what has been written so far by the running call
Written == toBuffer(gp6.writer)

\* C5 (SpecWriter): on a fresh writer the sections are written in the order
\* header, song metadata, track table, measure table: when the track table
\* is about to be written the bytes are exactly header and metadata, when
\* the measure table is about to be written they are exactly header,
\* metadata and the whole track table, and the bytes returned read back as
\* those four sections, the measure tables in track order.
C5_SectionOrder ==
    calls = 1 =>
        /\ pc = "writeSongInfo" => readHeader(Written, 0).end = Len(Written)
        /\ pc = "writeTracks" =>
              LET f == readSongInfo(Written, readHeader(Written, 0).end)
              IN  /\ f.end = Len(Written)
                  /\ f.v.strings[1] = utf8(arg.info.title)
        /\ pc = "writeMeasures" =>
              LET f == readTrackTable(Written,
                          readSongInfo(Written,
                                       readHeader(Written, 0).end).end)
              IN  /\ f.end = Len(Written)
                  /\ Len(f.v) = Len(arg.tracks)
        /\ pc \in {"return", "idle"} =>
              LET f == readFile(Written)
              IN  /\ f.end = Len(Written)
                  /\ f.infoAt = 35
                  /\ f.header.version = 6
                  /\ f.info.strings[1] = utf8(arg.info.title)
                  /\ Len(f.tracks) = Len(arg.tracks)
                  /\ \A t \in 1..Len(arg.tracks) :
                        /\ f.tracks[t].name = utf8(arg.tracks[t].name)
                        /\ f.tracks[t].tuning = arg.tracks[t].tuning.strings
                        /\ \A i \in WrittenMeasures(arg, t) :
                              /\ Len(f.measures[t][i].beats)
                                    = Len(arg.tracks[t].measures[i].beats)
                              /\ hasBit(f.measures[t][i].flags, 1)
                                    <=> "timeSignature"
                                           \in DOMAIN arg.tracks[t].measures[i]
                  /\ f.measureCount = arg.measureCount

\* C5 witness: a song of two different tracks with measures has been written.
C5_Witness ==
    /\ ReturnedFresh
    /\ Len(arg.tracks) = 2
    /\ arg.tracks[1] # arg.tracks[2]
    /\ Len(arg.tracks[1].measures) = 2
    /\ Len(arg.tracks[2].measures) = 1

\* C6 (SpecWriter): the first 35 bytes returned are the identifier
\* 'FICHIER GUITAR PRO v6' (bytes 0..20), ten zero bytes (21..30) and the
\* little-endian integer 6 (31..34), for every song.
C6_Header ==
    Returned =>
        /\ Len(ret) >= 35
        /\ SubSeq(ret, 1, 35) =
              <<70, 73, 67, 72, 73, 69, 82, 32, 71, 85, 73, 84, 65, 82, 32,
                80, 82, 79, 32, 118, 54,
                0, 0, 0, 0, 0, 0, 0, 0, 0, 0,
                6, 0, 0, 0>>

\* C6 witness: a song with a track and an accented title has been written.
C6_Witness ==
    /\ Returned
    /\ arg.info.title = StrAccent
    /\ Len(arg.tracks) >= 1

Recognized == {1, 2, 4, 8, 16, 32}

\* C7 (SpecWriter): for every written beat whose duration is one of 1, 2,
\* 4, 8, 16, 32 the byte after the beat's flags byte equals the duration.
C7_DurationByte ==
    ReturnedFresh =>
        LET f == readFile(ret)
        IN  \A t \in 1..Len(arg.tracks) : \A i \in WrittenMeasures(arg, t) :
               \A k \in 1..Len(arg.tracks[t].measures[i].beats) :
                  LET beat == arg.tracks[t].measures[i].beats[k]
                  IN  beat.duration \in Recognized =>
                         f.measures[t][i].beats[k].duration = beat.duration

\* C7 witness: a thirty-second beat has been written.
C7_Witness ==
    /\ ReturnedFresh
    /\ \E t \in 1..Len(arg.tracks) : \E i \in WrittenMeasures(arg, t) :
          \E k \in 1..Len(arg.tracks[t].measures[i].beats) :
             arg.tracks[t].measures[i].beats[k].duration = THIRTY_SECOND

\* C8 (SpecWriter): a write of a song holding a beat whose duration is none
\* of the six recognized values either fails (it does not return) or has
\* written 4 as that beat's duration byte.
C8_UnknownDuration ==
    ReturnedFresh =>
        LET f == readFile(ret)
        IN  \A t \in 1..Len(arg.tracks) : \A i \in WrittenMeasures(arg, t) :
               \A k \in 1..Len(arg.tracks[t].measures[i].beats) :
                  LET beat == arg.tracks[t].measures[i].beats[k]
                  IN  beat.duration \notin Recognized =>
                         f.measures[t][i].beats[k].duration = 4

\* C8 witness: a beat of duration 3 has been written.
C8_Witness ==
    /\ ReturnedFresh
    /\ \E t \in 1..Len(arg.tracks) : \E i \in WrittenMeasures(arg, t) :
          \E k \in 1..Len(arg.tracks[t].measures[i].beats) :
             arg.tracks[t].measures[i].beats[k].duration = 3

\* C9 (SpecBuffer): after any sequence of operations the writer that started
\* with a small capacity holds the bytes and the cursor of the writer whose
\* capacity was never exceeded, and its cursor is within its buffer.
C9_GrowthPreserves ==
    /\ toBuffer(writer) = toBuffer(ref)
    /\ getPosition(writer) = getPosition(ref)
    /\ writer.position <= writer.buffer.length
    /\ ref.buffer.length = DefaultSize

\* C9 witness: a byte and then an integer were written, five
\* bytes in a buffer that started with at most MaxCap: the buffer was
\* reallocated while it held data.
C9_Witness ==
    /\ ops = 2
    /\ last.op = "writeInt"
    /\ toBuffer(writer) = <<255, 6, 0, 0, 0>>
    /\ writer.buffer.length > MaxCap

\* C10 (SpecBuffer): a writeByteString of a string whose UTF-8 encoding is
\* longer than 255 bytes throws and appends nothing: cursor and written
\* bytes are as before the call.
C10_ByteStringTooLong ==
    [][(ops' = ops + 1 /\ last'.op = "writeByteString"
          /\ Len(utf8(last'.value)) > 255)
        => (/\ err'
            /\ writer'.position = writer.position
            /\ toBuffer(writer') = toBuffer(writer))]_vars

\* C10 witness: a writeByteString of 128 two-byte characters has thrown on a
\* writer that already held bytes.
C10_Witness ==
    /\ last.op = "writeByteString"
    /\ Len(last.value) = 128
    /\ Len(utf8(last.value)) = 256
    /\ err
    /\ writer.position > 0


\* the bytes a caller's operation appended: those of toBuffer() after it
\* from the old cursor on
Appended == SubSeq(toBuffer(writer'), writer.position + 1, writer'.position)

\* the caller has just issued the operation op
Issued(op) == ops' = ops + 1 /\ last'.op = op

\* C11 (SpecBuffer): writeString(s) succeeds and appends 4 bytes that read
\* as the little-endian integer n, n being the number of bytes of the UTF-8
\* encoding of s, and then exactly those n bytes, leaving the bytes written
\* before in place.
C11_WriteString ==
    [][Issued("writeString") =>
          LET s == last'.value
              n == Len(utf8(s))
          IN  /\ ~err'
              /\ SubSeq(toBuffer(writer'), 1, writer.position)
                    = toBuffer(writer)
              /\ Len(Appended) = 4 + n
              /\ readInt(Appended, 0).v = n
              /\ SubSeq(Appended, 5, 4 + n) = utf8(s)
              /\ s = StrMixed => Appended = <<6, 0, 0, 0,
                                              84, 195, 169, 226, 130, 172>>
              /\ s = StrEmpty => Appended = <<0, 0, 0, 0>>]_vars

\* C11 witness: "Té€", three characters of six bytes, has been written
\* after other bytes.
C11_Witness ==
    /\ last.op = "writeString"
    /\ last.value = StrMixed
    /\ ~err
    /\ writer.position > 10


\* C12 (SpecBuffer): writeFixedString(text, n) succeeds and appends exactly
\* n bytes: the first min(len, n) bytes of the UTF-8 encoding of text, len
\* being its encoded length, and then n - min(len, n) zero bytes; the bytes
\* written before stay in place.
C12_WriteFixedString ==
    [][Issued("writeFixedString") =>
          LET text  == last'.value[1]
              n     == last'.value[2]
              bytes == utf8(text)
              k     == IF Len(bytes) < n THEN Len(bytes) ELSE n
          IN  /\ ~err'
              /\ SubSeq(toBuffer(writer'), 1, writer.position)
                    = toBuffer(writer)
              /\ Len(Appended) = n
              /\ \A i \in 1..n :
                    Appended[i] = IF i <= k THEN bytes[i] ELSE 0
              /\ (text = StrMixed /\ n = 3) => Appended = <<84, 195, 169>>
              /\ (text = StrT /\ n = 3) => Appended = <<84, 0, 0>>]_vars

\* C12 witness: "Té€" (six bytes) has been cut to three bytes and, in
\* another call before it, "T" padded to three bytes.
C12_Witness ==
    /\ last.op = "writeFixedString"
    /\ last.value = <<StrMixed, 3>>
    /\ toBuffer(writer) = <<84, 0, 0, 84, 195, 169>>


\* the number of bytes the operation c = [op, value] encodes
EncodedSize(c) ==
    CASE c.op \in {"writeByte", "writeSignedByte", "writeBoolean"} -> 1
      [] c.op \in {"writeInt", "writeColor"} -> 4
      [] c.op = "writeString" -> 4 + Len(utf8(c.value))
      [] c.op = "writeByteString" -> 1 + Len(utf8(c.value))
      [] c.op = "writeFixedString" -> c.value[2]
      [] c.op = "skip" -> c.value[1]
      [] c.op = "writeBytes" -> Len(c.value)

C14_ToBufferFrame ==
    [][/\ last'.op = "toBuffer" =>
             /\ Len(last'.value) = writer.position
             /\ \A i \in 1..writer.position :
                   last'.value[i] = byteAt(writer.buffer, i - 1)
             /\ writer' = writer
       /\ last'.op = "getPosition" =>
             /\ last'.value = <<writer.position>>
             /\ writer' = writer]_vars

\* C14 witness: toBuffer() was called on a writer holding five bytes in a
\* larger buffer.
C14_Witness ==
    /\ last.op = "toBuffer"
    /\ last.value = <<1, 6, 0, 0, 0>>
    /\ writer.buffer.length > 5
    /\ ops = 2


\* a call was just made on the model's objects
Called == done'.n = done.n + 1

\* the array a field of an object refers to, in heap h
ArrayOf(h, a, f) == h[h[a].obj[f]].obj

\* C15 (SpecObjects): addNoteToBeat(beat, note) returns a beat whose rest
\* flag is false and whose notes are the old notes followed by the note,
\* with duration, dotted, tuplet and text (when there is one) as in the
\* argument; and the assignment beat.rest = true leaves the beat's notes as
\* they were.
C15_AddNoteClearsRest ==
    [][Called =>
          /\ done'.fn = "addNoteToBeat" =>
                LET beat == done'.args[1]
                    note == done'.args[2]
                    new  == heap'[done'.result].obj
                    old  == heap[beat].obj
                IN  /\ new.rest = FALSE
                    /\ ArrayOf(heap', done'.result, "notes")
                          = Append(ArrayOf(heap, beat, "notes"), note)
                    /\ DOMAIN new = DOMAIN old
                    /\ \A f \in DOMAIN old \ {"notes", "rest"} :
                          new[f] = old[f]
          /\ done'.fn = "beat.rest = true" =>
                LET beat == done'.args[1]
                IN  /\ heap'[beat].obj.rest = TRUE
                    /\ heap'[beat].obj.notes = heap[beat].obj.notes
                    /\ ArrayOf(heap', beat, "notes")
                          = ArrayOf(heap, beat, "notes")]_vars

\* C15 witness: a note was attached to the rest beat that has dotted, a
\* tuplet of 3 and no text, and then the returned beat's rest flag was set
\* directly: it is a rest beat that holds a note.
C15_Witness ==
    /\ done.n = 2
    /\ done.fn = "beat.rest = true"
    /\ heap[done.result].obj.rest
    /\ heap[done.result].obj.dotted
    /\ ArrayOf(heap, done.result, "notes") = <<1>>
    /\ "text" \notin DOMAIN heap[done.result].obj

\* the composition and setter functions of the model
ModelFunctions ==
    {"addNoteToBeat", "addBeatToMeasure", "setTimeSignature",
     "Measure.setTempo", "addMeasureToTrack", "setTuning", "addTrackToSong",
     "Song.setTempo"}

\* C16 (SpecObjects): a call of a composition or setter function returns an
\* object that did not exist before the call, and every object and array
\* that existed before the call, the arguments and their child sequences
\* included, has the fields and elements it had.
C16_ArgumentsUnchanged ==
    [][(Called /\ done'.fn \in ModelFunctions) =>
          /\ done'.result \notin DOMAIN heap
          /\ done'.result \in DOMAIN heap'
          /\ \A a \in DOMAIN heap : heap'[a] = heap[a]]_vars

\* C16 witness: a measure was added to a track and the result to a song.
C16_Witness ==
    /\ done.n = 2
    /\ done.fn = "addTrackToSong"
    /\ heap[done.result].obj.measureCount = 3
    /\ Len(ArrayOf(heap, done.result, "tracks")) = 1


\* C17 (SpecWriter): in every beat record written, bit 0x01 is set exactly
\* when the beat is dotted, bit 0x02 exactly when its rest flag is true and
\* bit 0x04 exactly when it has a text annotation (a text that is not
\* empty), which then follows the tuplet; the note count is the number of
\* the beat's notes, and that many note records follow it: the records of
\* the file end where the file ends.
C17_BeatFlags ==
    ReturnedFresh =>
        LET f == readFile(ret)
        IN  /\ f.end = Len(ret)
            /\ \A t \in 1..Len(arg.tracks) :
                  \A i \in WrittenMeasures(arg, t) :
                     \A k \in 1..Len(arg.tracks[t].measures[i].beats) :
                        LET beat == arg.tracks[t].measures[i].beats[k]
                            rec  == f.measures[t][i].beats[k]
                            text == IF "text" \in DOMAIN beat THEN beat.text
                                    ELSE <<>>
                        IN  /\ hasBit(rec.flags, 1) <=> beat.dotted
                            /\ hasBit(rec.flags, 2) <=> beat.rest
                            /\ hasBit(rec.flags, 4) <=> text # <<>>
                            /\ rec.flags < 8
                            /\ rec.text = utf8(text)
                            /\ Len(rec.notes) = Len(beat.notes)

\* C17 witness: a dotted rest beat without notes has been written, and its
\* record has bit 0x02 and no note.
C17_Witness ==
    /\ ReturnedFresh
    /\ \E t \in 1..Len(arg.tracks) : \E i \in WrittenMeasures(arg, t) :
          \E k \in 1..Len(arg.tracks[t].measures[i].beats) :
             /\ arg.tracks[t].measures[i].beats[k].rest
             /\ arg.tracks[t].measures[i].beats[k].dotted
             /\ arg.tracks[t].measures[i].beats[k].notes = <<>>
             /\ readFile(ret).measures[t][i].beats[k].flags = 3
             /\ readFile(ret).measures[t][i].beats[k].notes = <<>>


\* the tuning of the track a createTrack call returned
CreatedTuning == ArrayOf(heap, heap[done.result].obj.tuning, "strings")

\* C18 (SpecObjects), the claim as stated: createTrack(name, n) returns a
\* track whose tuning has exactly n entries, the first n values of the
\* standard tuning 64, 59, 55, 50, 45, 40, for every requested string count
\* n, and the whole standard tuning when n is omitted.
C18_TuningPerString ==
    done.fn = "createTrack" =>
        IF Len(done.args) = 1
        THEN CreatedTuning = <<64, 59, 55, 50, 45, 40>>
        ELSE /\ Len(CreatedTuning) = done.args[2]
             /\ \A i \in 1..done.args[2] :
                   CreatedTuning[i] = <<64, 59, 55, 50, 45, 40>>[i]


\* 1 when the articulation flag f of the note is true, else 0
Bit(note, f) == IF f \in DOMAIN note /\ note[f] THEN 1 ELSE 0

\* C19 (SpecWriter): every note record written is four bytes: the flags
\* byte, the sum of 0x01 ghost, 0x02 accentuated, 0x04 heavy-accentuated,
\* 0x08 palm-mute, 0x10 vibrato, 0x20 harmonic, 0x40 trill and 0x80 slide
\* over the flags that are true, then string, fret and velocity; with
\* four-byte note records the records of the file end where the file ends.
C19_NoteRecord ==
    ReturnedFresh =>
        LET f == readFile(ret)
        IN  /\ f.end = Len(ret)
            /\ \A t \in 1..Len(arg.tracks) :
                  \A i \in WrittenMeasures(arg, t) :
                     \A k \in 1..Len(arg.tracks[t].measures[i].beats) :
                        LET notes == arg.tracks[t].measures[i].beats[k].notes
                            recs  == f.measures[t][i].beats[k].notes
                        IN  /\ Len(recs) = Len(notes)
                            /\ \A j \in 1..Len(notes) :
                                  /\ recs[j].flags =
                                        Bit(notes[j], "ghost")
                                        + 2 * Bit(notes[j], "accentuated")
                                        + 4 * Bit(notes[j], "heavyAccentuated")
                                        + 8 * Bit(notes[j], "palmMute")
                                        + 16 * Bit(notes[j], "vibrato")
                                        + 32 * Bit(notes[j], "harmonic")
                                        + 64 * Bit(notes[j], "trill")
                                        + 128 * Bit(notes[j], "slide")
                                  /\ recs[j].string = notes[j].string
                                  /\ recs[j].fret = notes[j].fret
                                  /\ recs[j].velocity = notes[j].velocity

\* C19 witness: a note with every articulation flag has been written as
\* 255, 4, 24, 64.
C19_Witness ==
    /\ ReturnedFresh
    /\ \E t \in 1..Len(arg.tracks) : \E i \in WrittenMeasures(arg, t) :
          \E k \in 1..Len(arg.tracks[t].measures[i].beats) :
             /\ Len(arg.tracks[t].measures[i].beats[k].notes) = 1
             /\ arg.tracks[t].measures[i].beats[k].notes[1].slide
             /\ arg.tracks[t].measures[i].beats[k].notes[1].trill
             /\ readFile(ret).measures[t][i].beats[k].notes
                   = <<[flags |-> 255, string |-> 4, fret |-> 24,
                        velocity |-> 64]>>


\* the measures written: <<track, index>> pairs below measureCount
WrittenAt(s) ==
    { <<t, i>> : t \in 1..Len(s.tracks), i \in 1..s.measureCount } \cap
    { <<t, i>> \in (1..Len(s.tracks)) \X (1..s.measureCount) :
         i <= Len(s.tracks[t].measures) }

\* whether the measure's repeat-open flag is set
RepeatOpen(m) == "repeatOpen" \in DOMAIN m /\ m.repeatOpen

\* measures m and n differ in repeatOpen and in nothing else
DifferInRepeatOpenOnly(m, n) ==
    /\ RepeatOpen(m) # RepeatOpen(n)
    /\ with(m, "repeatOpen", FALSE) = with(n, "repeatOpen", FALSE)

\* C20 (SpecWriter): the records of two written measures that differ only
\* in repeatOpen have the same length and the same bytes after the flags
\* byte, and their flags bytes differ in bit 0x08 only: this bit is set in
\* the record of the measure with repeatOpen and all other bits agree.
C20_RepeatOpenNoPayload ==
    ReturnedFresh =>
        LET f == readFile(ret)
        IN  \A x \in WrittenAt(arg), y \in WrittenAt(arg) :
               LET m == arg.tracks[x[1]].measures[x[2]]
                   n == arg.tracks[y[1]].measures[y[2]]
                   a == f.measures[x[1]][x[2]].bytes
                   b == f.measures[y[1]][y[2]].bytes
               IN  (DifferInRepeatOpenOnly(m, n) /\ RepeatOpen(m)) =>
                      /\ Len(a) = Len(b)
                      /\ Len(a) >= 5
                      /\ Tail(a) = Tail(b)
                      /\ hasBit(a[1], 8) /\ ~hasBit(b[1], 8)
                      /\ a[1] = b[1] + 8

\* C20 witness: a measure with a time signature, a marker, a tempo and no
\* beat has been written with and without repeatOpen.
C20_Witness ==
    /\ ReturnedFresh
    /\ \E x \in WrittenAt(arg), y \in WrittenAt(arg) :
          /\ DifferInRepeatOpenOnly(arg.tracks[x[1]].measures[x[2]],
                                    arg.tracks[y[1]].measures[y[2]])
          /\ "marker" \in DOMAIN arg.tracks[x[1]].measures[x[2]]
          /\ readFile(ret).measures[x[1]][x[2]].flags = 45
          /\ readFile(ret).measures[y[1]][y[2]].flags = 37


\* C21 (SpecWriter): the byte sequence writeGP6File returns is at least 71
\* bytes long: the header takes the first 35 bytes and the metadata block
\* after it at least 36, which is its length when the eight strings are
\* empty and there is no comment.
C21_MinimumLength ==
    ReturnedFresh =>
        /\ Len(ret) >= 71
        /\ readFile(ret).infoAt = 35
        /\ readFile(ret).tracksAt - readFile(ret).infoAt >= 36
        /\ (/\ \A i \in 1..8 : readFile(ret).info.strings[i] = <<>>
            /\ readFile(ret).info.comments = <<>>)
              => readFile(ret).tracksAt = 71

\* C21 witness: a song whose metadata strings are all empty and that has no
\* comment and no track has been written; its metadata block ends at 71.
C21_Witness ==
    /\ ReturnedFresh
    /\ arg = createSong(StrEmpty, StrEmpty)
    /\ readFile(ret).tracksAt = 71
    /\ Len(ret) = 79


\* the notes of the measures of song s that are written, each with the index
\* of its track
WrittenNotes(s) ==
    UNION { UNION { { <<x[1], s.tracks[x[1]].measures[x[2]].beats[k].notes[n]>> :
                         n \in 1..Len(s.tracks[x[1]].measures[x[2]].beats[k].notes) } :
                    k \in 1..Len(s.tracks[x[1]].measures[x[2]].beats) } :
            x \in WrittenAt(s) }

\* song s holds a written note whose fret exceeds its track's fret count or
\* whose velocity exceeds 127
HasOutOfRangeNote(s) ==
    \E tn \in WrittenNotes(s) :
       \/ tn[2].fret > s.tracks[tn[1]].fretCount
       \/ tn[2].velocity > 127

\* C25 (SpecWriter): serializing a song that holds a note whose fret exceeds
\* the track's fret count or whose velocity exceeds 127 raises no error.
C25_OutOfRangeAccepted ==
    (calls = 1 /\ HasOutOfRangeNote(arg)) => pc # "threw"


\* song tempos and keys a caller may set, in and out of range
SongTempoInputs == {0, 90, 120, 300, -1}
SongKeyInputs == {0, -7, 7, 200}

\* C29 (SpecWriter): the bytes writeGP6File returns for a song are those it
\* returns for every song that differs from it in tempo and key only; a
\* measure's own tempo, when not zero, is written in its record.
C29_TempoAndKeyNotWritten ==
    ReturnedFresh =>
        /\ \A tempo \in SongTempoInputs, key \in SongKeyInputs :
              writeGP6File(with(with(arg, "tempo", tempo), "key", key)) = ret
        /\ \A x \in WrittenAt(arg) :
              LET m == arg.tracks[x[1]].measures[x[2]]
                  r == readFile(ret).measures[x[1]][x[2]]
              IN  truthyNumber(m, "tempo") =>
                     hasBit(r.flags, 32) /\ r.tempo = <<m.tempo>>

\* C29 witness: a song of tempo 120 holding a measure of tempo 90 has been
\* written.
C29_Witness ==
    /\ ReturnedFresh
    /\ arg.tempo = 120
    /\ arg.key = 0
    /\ \E x \in WrittenAt(arg) :
          /\ truthyNumber(arg.tracks[x[1]].measures[x[2]], "tempo")
          /\ readFile(ret).measures[x[1]][x[2]].tempo = <<90>>


\* s ends with x: it is some string followed by x
HasSuffix(s, x) == \E k \in 0..Len(s) : s = SubSeq(s, 1, k) \o x

\* the tool calls that have computed their file path
WithPath == { i \in 1..Len(tasks) : "filepath" \in DOMAIN tasks[i] }

\* the last component of the call's file path: what follows the directory
\* and the separator
FinalName(task) == SubSeq(task.filepath, Len(task.dir) + 2, Len(task.filepath))

\* C22 (SpecTools): the path of a call is its directory, a separator and the
\* final file name; this name is the given one when that ends with '.gp6'
\* and the given one followed by '.gp6' otherwise.  So the path ends with
\* '.gp6', the name ends with '.gp6.gp6' only if the given one did, and the
\* normalizer leaves it as it is.
C22_FilenameNormalized ==
    \A i \in WithPath :
       LET given == tasks[i].args.filename
           final == FinalName(tasks[i])
       IN  /\ tasks[i].filepath = tasks[i].dir \o <<47>> \o final
           /\ HasSuffix(given, Gp6) => final = given
           /\ ~HasSuffix(given, Gp6) => final = given \o Gp6
           /\ HasSuffix(tasks[i].filepath, Gp6)
           /\ HasSuffix(final, Gp6 \o Gp6) => HasSuffix(given, Gp6 \o Gp6)
           /\ finalFilename(final) = final

\* C22 witness: the second call of a client was given the name 'a' and has
\* returned the path /M/a.gp6, where its bytes are.
C22_Witness ==
    /\ Len(tasks) = 1
    /\ tasks[1].id = 2
    /\ tasks[1].pc = "returned"
    /\ "resolved" \in DOMAIN tasks[1].call
    /\ tasks[1].args.filename = FileA
    /\ tasks[1].call.resolved.filepath = join(MusicDirectory, FileAGp6)
    /\ DOMAIN disk.files = {join(MusicDirectory, FileAGp6)}
    /\ disk.files[join(MusicDirectory, FileAGp6)] = tasks[1].buffer


\* the tool call fails while it builds or serializes its song
FailsBeforeWrite(task) ==
    \/ "threw" \in DOMAIN built(task)
    \/ write(newGP6Writer.writer, built(task).song).threw

\* b is the first bytes of c, or all of them
IsPrefix(b, c) == Len(b) <= Len(c) /\ b = SubSeq(c, 1, Len(b))

\* C23 (SpecTools): a step that changes the files is the fs.writeFile of a
\* call whose buffer is the whole byte sequence writeGP6File returns for its
\* song, and it changes the file at the path of this call only; a call
\* that fails while building or serializing its song is rejected with the
\* error and answers with it, in a step that leaves the files as they were,
\* and never reaches fs.writeFile.
C23_WriteAfterSerialization ==
    [][/\ disk'.files # disk.files =>
             \E i \in 1..Len(tasks) :
                /\ tasks[i].pc = "writeFile"
                /\ ~FailsBeforeWrite(tasks[i])
                /\ tasks[i].buffer = writeGP6File(built(tasks[i]).song)
                /\ \E bytes \in {tasks[i].buffer, SubSeq(tasks[i].buffer, 1, 35)} :
                      disk'.files = with(disk.files, tasks[i].filepath, bytes)
       /\ \A i \in 1..Len(tasks) :
             (tasks[i].pc = "mkdir" /\ Len(tasks') = Len(tasks)
              /\ tasks'[i].pc # "mkdir" /\ FailsBeforeWrite(tasks[i])) =>
                /\ tasks'[i].pc = "returned"
                /\ "rejected" \in DOMAIN tasks'[i].call
                /\ tasks'[i].result.isError
                /\ disk'.files = disk.files
      ]_vars

\* C23 witness: the call for /o/.gp6, whose song holds a fret that is no
\* byte, has been rejected with the RangeError; the file that was at this
\* path holds its old bytes.
C23_Witness ==
    /\ Len(tasks) = 1
    /\ tasks[1].pc = "returned"
    /\ tasks[1].call = [rejected |-> "RangeError"]
    /\ tasks[1].args.filename = FileGp6
    /\ OtherDirectory \in disk.directories
    /\ join(OtherDirectory, FileGp6) \in DOMAIN disk.files
    /\ disk.files[join(OtherDirectory, FileGp6)] = OldBytes


\* the tool calls at whose path no other call writes
AloneAtPath ==
    { i \in WithPath :
         \A j \in WithPath \ {i} : tasks[j].filepath # tasks[i].filepath }

\* C24 (SpecConcurrent): with calls in flight at once, in whatever order
\* their awaits return, the song a call holds and returns is the one built
\* from its own arguments and its buffer is that song's serialization; and
\* when no other call names its path, the file there is absent or as it was
\* until the call writes, then holds bytes of the call's own buffer: all of
\* them once the call has returned.
C24_CallsIndependent ==
    \A i \in 1..Len(tasks) :
       /\ "song" \in DOMAIN tasks[i] =>
             /\ tasks[i].song = built(tasks[i]).song
             /\ tasks[i].buffer = writeGP6File(built(tasks[i]).song)
       /\ ("call" \in DOMAIN tasks[i] /\ "resolved" \in DOMAIN tasks[i].call) =>
             /\ tasks[i].call.resolved.song = built(tasks[i]).song
             /\ tasks[i].call.resolved.filepath = tasks[i].filepath
       /\ (i \in AloneAtPath /\ tasks[i].filepath \in DOMAIN disk.files) =>
             \/ disk.files[tasks[i].filepath] = OldBytes
                  /\ \/ tasks[i].pc \in {"mkdir", "writeFile"}
                     \/ "rejected" \in DOMAIN tasks[i].call
             \/ /\ tasks[i].pc = "returned"
                /\ "rejected" \in DOMAIN tasks[i].call
                /\ disk.files[tasks[i].filepath] =
                      SubSeq(writeGP6File(built(tasks[i]).song), 1, 35)
             \/ /\ tasks[i].pc = "returned"
                /\ "resolved" \in DOMAIN tasks[i].call
                /\ disk.files[tasks[i].filepath] =
                      writeGP6File(built(tasks[i]).song)
       /\ (i \in AloneAtPath /\ tasks[i].pc = "returned"
           /\ "resolved" \in DOMAIN tasks[i].call) =>
             /\ tasks[i].filepath \in DOMAIN disk.files
             /\ disk.files[tasks[i].filepath] =
                   writeGP6File(built(tasks[i]).song)

\* C24 witness: the second of two calls for different songs and paths has
\* returned and its file is written, while the first, which began earlier,
\* still waits for its fs.writeFile.
C24_Witness ==
    /\ Len(tasks) = 2
    /\ tasks[1].pc = "writeFile"
    /\ tasks[2].pc = "returned"
    /\ "resolved" \in DOMAIN tasks[2].call
    /\ tasks[1].tool # tasks[2].tool
    /\ tasks[1].filepath # tasks[2].filepath
    /\ tasks[2].filepath \in DOMAIN disk.files
    /\ disk.files[tasks[2].filepath] = tasks[2].buffer
    /\ tasks[1].filepath \notin DOMAIN disk.files


\* the calls of create_guitar_pro_file that have returned their song
ReturnedFull ==
    { i \in 1..Len(tasks) :
         /\ tasks[i].tool = "create_guitar_pro_file"
         /\ tasks[i].pc = "returned"
         /\ "resolved" \in DOMAIN tasks[i].call }

\* where the notes of the arguments' beats are: track, measure, beat, note
NotePlaces(args) ==
    UNION { UNION { UNION {
        { <<t, m, b, n>> :
             n \in 1..(IF "notes" \in DOMAIN args.tracks[t].measures[m].beats[b]
                       THEN Len(args.tracks[t].measures[m].beats[b].notes)
                       ELSE 0) } :
        b \in 1..(IF "beats" \in DOMAIN args.tracks[t].measures[m]
                  THEN Len(args.tracks[t].measures[m].beats) ELSE 0) } :
        m \in 1..Len(args.tracks[t].measures) } :
        t \in 1..Len(args.tracks) }

\* the note of the arguments at place x, and the note of song s there
NoteData(args, x) == args.tracks[x[1]].measures[x[2]].beats[x[3]].notes[x[4]]
NoteAt(s, x) == s.tracks[x[1]].measures[x[2]].beats[x[3]].notes[x[4]]

\* C26 (SpecTools): in the song createGuitarProFile returns, a note has the
\* velocity its arguments give it, and 95 when they give none.
C26_VelocityAsSupplied ==
    \A i \in ReturnedFull :
       \A x \in NotePlaces(tasks[i].args) :
          NoteAt(tasks[i].call.resolved.song, x).velocity =
             IF "velocity" \in DOMAIN NoteData(tasks[i].args, x)
             THEN NoteData(tasks[i].args, x).velocity
             ELSE 95


\* the calls of create_simple_guitar_pro_file that have returned their song
ReturnedSimple ==
    { i \in 1..Len(tasks) :
         /\ tasks[i].tool = "create_simple_guitar_pro_file"
         /\ tasks[i].pc = "returned"
         /\ "resolved" \in DOMAIN tasks[i].call }

\* the places of the dashes of s, and the place of the j-th of them (0 for
\* j = 0, one past the end of s for the one after the last)
Dashes(s) == { i \in 1..Len(s) : s[i] = 45 }
DashAt(s, j) ==
    IF j = 0 THEN 0
    ELSE IF j > Cardinality(Dashes(s)) THEN Len(s) + 1
    ELSE CHOOSE i \in Dashes(s) :
            Cardinality({ k \in Dashes(s) : k <= i }) = j

\* the j-th dash-separated entry of s
Entry(s, j) == SubSeq(s, DashAt(s, j - 1) + 1, DashAt(s, j) - 1)

\* the number a string of decimal digits writes
RECURSIVE Decimal(_)
Decimal(e) ==
    IF e = <<>> THEN 0
    ELSE 10 * Decimal(SubSeq(e, 1, Len(e) - 1)) + (e[Len(e)] - 48)

IsDigits(e) == e # <<>> /\ \A i \in 1..Len(e) : e[i] \in 48..57

\* C27 (SpecTools): the song createSimpleGuitarProFile returns for a
\* tablature of k strings has the title and tempo given (120 when none is)
\* and one track, of k measures, and its measure count is k; measure i holds
\* one beat for each dash-separated entry of the i-th string, in order: a
\* quarter-note beat, no rest, with one note on string 1 of velocity 95
\* whose fret is what parseInt gives for the entry: the number it writes when
\* it is made of digits, NaN when it does not begin with a number.
C27_SimpleTablature ==
    \A i \in ReturnedSimple :
       LET s   == tasks[i].call.resolved.song
           tab == tasks[i].args.tablature
       IN  /\ s.info.title = tasks[i].args.title
           /\ s.tempo = IF "tempo" \in DOMAIN tasks[i].args
                        THEN tasks[i].args.tempo ELSE 120
           /\ Len(s.tracks) = 1
           /\ Len(s.tracks[1].measures) = Len(tab)
           /\ s.measureCount = Len(tab)
           /\ \A m \in 1..Len(tab) :
                 LET beats == s.tracks[1].measures[m].beats
                 IN  /\ Len(beats) = Cardinality(Dashes(tab[m])) + 1
                     /\ \A b \in 1..Len(beats) :
                           /\ beats[b].duration = QUARTER
                           /\ ~beats[b].rest
                           /\ ~beats[b].dotted
                           /\ Len(beats[b].notes) = 1
                           /\ beats[b].notes[1].string = 1
                           /\ beats[b].notes[1].velocity = 95
                           /\ beats[b].notes[1].fret = parseInt(Entry(tab[m], b))
                           /\ IsDigits(Entry(tab[m], b)) =>
                                 beats[b].notes[1].fret = Decimal(Entry(tab[m], b))
                           /\ (Entry(tab[m], b) = <<>>
                               \/ Entry(tab[m], b) = <<120>>) =>
                                 beats[b].notes[1].fret = NaN

\* C27 witness: the call for the tablature '', '1x- 7-+3', '0--2' has
\* returned: three measures, the first of one beat whose fret is NaN, the
\* second with the frets 1, 7 and 3, the third with 0, NaN and 2.
C27_Witness ==
    \E i \in ReturnedSimple :
       /\ Len(tasks[i].args.tablature) = 3
       /\ tasks[i].call.resolved.song.measureCount = 3
       /\ [m \in 1..3 |->
             [b \in 1..Len(tasks[i].call.resolved.song.tracks[1].measures[m].beats) |->
                tasks[i].call.resolved.song.tracks[1].measures[m].beats[b].notes[1].fret]]
          = << <<NaN>>, <<1, 7, 3>>, <<0, NaN, 2>> >>
       /\ tasks[i].filepath \in DOMAIN disk.files
       /\ disk.files[tasks[i].filepath] = tasks[i].buffer


\* C28 (SpecTools): a call of one of the two registered tools never throws:
\* once it is over, the handler has returned a result, which has isError
\* and a text with the error when the tool function failed, and a text
\* without isError when it returned; a call of any other name, and only
\* such a call, throws 'Unknown tool'.
C28_ErrorsAsResults ==
    \A i \in 1..Len(tasks) :
       /\ tasks[i].pc = "threw" <=> tasks[i].tool \notin Tools
       /\ tasks[i].pc = "threw" => tasks[i].error = "Unknown tool"
       /\ tasks[i].pc \in {"mkdir", "writeFile"} =>
             "result" \notin DOMAIN tasks[i] /\ "call" \notin DOMAIN tasks[i]
       /\ tasks[i].pc = "returned" =>
             /\ "rejected" \in DOMAIN tasks[i].call =>
                   /\ "isError" \in DOMAIN tasks[i].result
                   /\ tasks[i].result.isError
                   /\ tasks[i].result.content.type = "text"
                   /\ tasks[i].result.content.text.error
                         = tasks[i].call.rejected
             /\ "resolved" \in DOMAIN tasks[i].call =>
                   /\ "isError" \notin DOMAIN tasks[i].result
                   /\ tasks[i].result.content.type = "text"
                   /\ tasks[i].result.content.text.location
                         = tasks[i].call.resolved.filepath
                   /\ tasks[i].result.content.text.measures
                         = tasks[i].call.resolved.song.measureCount
                   /\ tasks[i].result.content.text.tempo
                         = tasks[i].call.resolved.song.tempo

\* C28 witness: the second call of a client has failed in fs.writeFile
\* after 35 bytes, and the handler has answered with isError and ENOSPC.
C28_Witness ==
    /\ Len(tasks) = 1
    /\ tasks[1].id = 2
    /\ tasks[1].pc = "returned"
    /\ tasks[1].call = [rejected |-> "ENOSPC"]
    /\ tasks[1].result.isError
    /\ tasks[1].result.content.text.error = "ENOSPC"
    /\ Len(disk.files[tasks[1].filepath]) = 35


\* where the beats of the arguments are: track, measure, beat
BeatPlaces(args) ==
    UNION { UNION {
        { <<t, m, b>> :
             b \in 1..(IF "beats" \in DOMAIN args.tracks[t].measures[m]
                       THEN Len(args.tracks[t].measures[m].beats) ELSE 0) } :
        m \in 1..Len(args.tracks[t].measures) } :
        t \in 1..Len(args.tracks) }

\* the notes the arguments ask for in the beat beatData
NotesAsked(beatData) ==
    IF "notes" \in DOMAIN beatData THEN beatData.notes ELSE <<>>

\* C30 (SpecTools): in the song createGuitarProFile returns, the beats are
\* those of the arguments, place by place; a beat is a rest only if it has
\* no note, and exactly when the arguments ask for a rest without notes; a
\* beat asked as a rest with notes is no rest and has these notes, string
\* and fret as given.  In the bytes written, every beat record holds the
\* notes of its beat, and none has bit 0x02 with a note count other than 0.
C30_RestHasNoNotes ==
    \A i \in ReturnedFull :
       LET s    == tasks[i].call.resolved.song
           args == tasks[i].args
           f    == readFile(tasks[i].buffer)
       IN  /\ \A t \in 1..Len(args.tracks) :
                 /\ Len(s.tracks[t].measures) = Len(args.tracks[t].measures)
                 /\ \A m \in 1..Len(args.tracks[t].measures) :
                       Len(s.tracks[t].measures[m].beats)
                          = Cardinality({ x \in BeatPlaces(args) :
                                             x[1] = t /\ x[2] = m })
           /\ \A x \in BeatPlaces(args) :
                 LET asked  == args.tracks[x[1]].measures[x[2]].beats[x[3]]
                     beat   == s.tracks[x[1]].measures[x[2]].beats[x[3]]
                     record == f.measures[x[1]][x[2]].beats[x[3]]
                 IN  /\ beat.rest => beat.notes = <<>>
                     /\ beat.rest <=> (truthyBoolean(asked, "rest")
                                        /\ NotesAsked(asked) = <<>>)
                     /\ Len(beat.notes) = Len(NotesAsked(asked))
                     /\ \A n \in 1..Len(beat.notes) :
                           /\ beat.notes[n].string = NotesAsked(asked)[n].string
                           /\ beat.notes[n].fret = NotesAsked(asked)[n].fret
                     /\ Len(record.notes) = Len(beat.notes)
                     /\ hasBit(record.flags, 2) <=> beat.rest
                     /\ ~(hasBit(record.flags, 2) /\ Len(record.notes) # 0)

\* C30 witness: a call whose first beat was asked as a rest with three
\* notes, its second as a rest without notes and its third as a rest with
\* an empty list of notes has returned; the first beat is no rest and its
\* record holds three notes, the other two are rests.
C30_Witness ==
    \E i \in ReturnedFull :
       /\ Len(tasks[i].args.tracks) >= 1
       /\ tasks[i].args.tracks[1].measures[1].beats = BeatData
       /\ ~tasks[i].call.resolved.song.tracks[1].measures[1].beats[1].rest
       /\ tasks[i].call.resolved.song.tracks[1].measures[1].beats[2].rest
       /\ tasks[i].call.resolved.song.tracks[1].measures[1].beats[3].rest
       /\ Len(readFile(tasks[i].buffer).measures[1][1].beats[1].notes) = 3
       /\ ~hasBit(readFile(tasks[i].buffer).measures[1][1].beats[1].flags, 2)
       /\ hasBit(readFile(tasks[i].buffer).measures[1][1].beats[2].flags, 2)
       /\ disk.files[tasks[i].filepath] = tasks[i].buffer

====
